---------------------------- MODULE Spec2Model ----------------------------
(***************************************************************************)
(* A model of the crystal logging engine (Lunar-Chipter/crystal).          *)
(*                                                                         *)
(* The engine is a set of cooperating components.  Each one is modelled    *)
(* as a group of variables and a group of actions translated from its Go   *)
(* source, and each has a specification of its own (SpecAsync, SpecRot,    *)
(* ...) in which the other components are not instantiated: their          *)
(* variables keep the value of the matching ...Off predicate.              *)
(*                                                                         *)
(*   a...   core.AsyncLogger            src/internal/core/logger.go        *)
(*   r...   RotatingFileWriter          src/internal/rotation/rotation.go  *)
(*                                      and src/crystal.go                 *)
(*   b...   outputs.BufferedWriter      src/internal/outputs/buffered.go   *)
(*   l...   core.Logger.logEntry        src/internal/core/logger.go        *)
(*   c...   BufferedWriter of crystal   src/crystal.go                     *)
(*   k...   Logger.log of crystal       src/crystal.go                     *)
(*                                                                         *)
(* Goroutines are processes with a program counter.  A channel operation,  *)
(* a mutex operation and a call on the sink are one step each; a Go        *)
(* select that finds several cases ready takes any of them.  An            *)
(* unrecovered panic or a call of the exit function ends the process:      *)
(* every action of the component is disabled from then on.                 *)
(***************************************************************************)
EXTENDS Naturals, Integers, Sequences, FiniteSets, TLC

VARIABLES
    \* ---- core.AsyncLogger
    ajobs,        \* al.jobs: the buffered channel of jobs (job ids, FIFO)
    ajobsClosed,  \* close(al.jobs) has run
    aclosed,      \* close(al.closed) has run
    apc,          \* worker -> position in AsyncLogger.worker
    ajob,         \* worker -> the job it received (0: a nil *logJob)
    awritten,     \* jobs whose entry went through logger.logEntry
    aaccepted,    \* jobs the queue accepted
    adropped,     \* jobs dropped on a full queue (error handler called)
    anext,        \* number of submissions made so far
    abefore,      \* the jobs accepted before Close() was called
    apending,     \* those of them not yet processed when Close() was called
    acl,          \* position of the goroutine that calls Close()
    acrashed,     \* "none", or the unrecovered panic that ended the process
    aerrs,        \* calls of the error handler by LogEntry
    \* ---- RotatingFileWriter
    rvariant,     \* "internal": internal/rotation/rotation.go, "crystal": crystal.go
    rmaxSize,     \* config.MaxSize
    rtimed,       \* a time trigger (RotationTime or MaxAge) is configured
    rmu,          \* r.mu: 0 when unlocked, else the goroutine that locked it
    rpc,          \* goroutine -> position in Write
    rarg,         \* goroutine -> len(p) of its Write call
    rcurrentSize, \* r.currentSize
    rfileOpen,    \* r.file is an open handle
    rexists,      \* a file exists at r.filename
    rdue,         \* now - r.lastRotation has reached the configured time trigger
    rrot,         \* rotations completed
    rsizeAfterRot,\* r.currentSize as the last rotation left it (-1: none yet)
    rcalls,       \* Write calls made
    rdone,        \* Write calls returned
    rsum,         \* bytes written to files by the returned calls
    rfaults,      \* file-system faults injected so far
    rcrashed,     \* the runtime ended the process (unlock of unlocked mutex)
    \* ---- outputs.BufferedWriter (goroutine 0 is its flushWorker)
    bbuf,         \* bw.buffer: the channel of byte slices (slice ids, FIFO)
    bdone,        \* close(bw.done) has run
    bpc,          \* goroutine -> position in Write, Flush or flushWorker
    bslice,       \* goroutine -> the slice of its Write call
    bbatch,       \* goroutine -> the batch collectBatch has gathered so far
    bfinal,       \* the flushWorker is in its shutdown flush
    bres,         \* goroutine -> what its last Write returned: "ok" or "err"
    bok,          \* slices whose Write call returned without error
    bsink,        \* the writes the underlying sink accepted, in order (batches)
    bsinkClosed,  \* Close() closed the underlying sink
    bfaults,      \* sink and formatter faults injected so far
    btotal,       \* bw.totalLogs
    bdropped,     \* bw.droppedLogs
    bflushes,     \* caller-side Flush calls made
    bcl,          \* position of the goroutine that calls Close()
    bmark,        \* bw.totalLogs when Close() returned (-1: it has not)
    bcap,         \* bufferSize: the capacity of the channel bw.buffer
    btimerArmed,  \* batchTimer of flushWorker is running (will fire)
    bsnap,        \* per goroutine in a flush: the queue when its collectBatch began
    \* ---- core.Logger
    lbuffered,    \* config.BufferSize > 0: l.buffer is set and l.out is l.buffer
    lhooks,       \* the logger has hooks: l.mu is taken to run them
    lerrOut,      \* config.ErrorOutput is set
    llevelMask,   \* l.levelMask, as the set of its bits
    lrate,        \* the rate of l.sampler (0: there is no sampler)
    lcount,       \* l.sampler.count
    lmu,          \* l.mu: 0 when unlocked, else the goroutine that locked it
    lpc,          \* goroutine -> position in logEntry
    llevel,       \* goroutine -> entry.Level of its call
    lid,          \* goroutine -> the id of its call (its entry, its bytes)
    lcalls,       \* the log calls made, in order: <<goroutine, level>>
    lerrSink,     \* the writes config.ErrorOutput accepted, in order
    lerrs,        \* calls of l.errorHandler
    lonFatal,     \* the entries l.onFatal was called with
    lexit,        \* "none", "exit" (l.exitFunc(1)) or "panic"
    lexitId,      \* the entry whose call ended the process (0: none)
    \* ---- BufferedWriter of crystal.go
    cbuf,         \* the channel bw.buffer: the queued slices, oldest first
    cdone,        \* the channel bw.done is closed
    cwpc,         \* position of flushWorker: "select", "flush_in", "exit"
    cwafter,      \* where flushWorker goes after its flushBatch
    cbatch,       \* the local variable batch of flushWorker
    cpc,          \* caller -> "idle" or "direct_in" (inside the sink's Write)
    cres,         \* caller -> result of its last Write: "ok" or "err"
    csink,        \* the writes the sink accepted, in order
    csinkClosed,  \* the sink has been closed
    cfaults,      \* sink faults injected so far
    ctotal,       \* bw.totalLogs (the id of the last slice written)
    cdropped,     \* bw.droppedLogs
    cqueued,      \* the slices accepted into the queue so far
    cbefore,      \* the slices accepted into the queue when Close() was called
    ccl,          \* position of Close(): "idle", "waiting", "returned"
    \* ---- Logger of crystal.go
    kdisableLocking, \* config.DisableLocking
    klevelMask,   \* l.levelMask, as the set of its bits
    kmu,          \* l.mu: 0 when unlocked, else the goroutine that locked it
    kstack,       \* goroutine -> its nested calls of l.log, innermost last
    kcalls,       \* number of calls of the public log methods
    kslow,        \* number of calls found to have lasted more than 100 ms
    ksink,        \* the writes l.out accepted, in order
    kfaults,      \* format and write faults injected so far
    kerrs,        \* calls of l.errorHandler
    kexit,        \* "none", "exit" (l.exitFunc(1)) or "panic"
    \* ---- one call of a public log method of core.Logger, and its LogEntry
    emsg,         \* len(msg) of the call
    emax,         \* config.MaxMessageSize
    ehost,        \* len(config.Hostname), config.ShowHostname being set
    elevel,       \* the level of the method called
    emin,         \* config.Level
    easync,       \* config.AsyncLogging: l.asyncLogger is set
    ectx,         \* the call is an XxxContext call whose ctx carries values
    epc,          \* position of the call
    eacquired,    \* getEntryFromPool() has been called for the call
    ecopied,      \* the message has been copied into the entry
    eMessageLen,  \* entry.MessageLen
    eHostnameLen, \* entry.HostnameLen
    ejobctx,      \* the ctx argument logEntry is called with is not nil
    efields,      \* the entry carries the context-derived fields
    eout,         \* what was written: << >> or <<[len, ctx, marker]>>
    emarker,      \* bytes of the truncation marker copied into entry.Message
    efault,       \* "none" or the run-time panic of the call
    \* ---- RotatingFileWriter: rotate, compressFile, cleanupBackups and the
    \*      files of the log directory
    fvariant,     \* "internal" (internal/rotation) or "crystal" (crystal.go)
    fcompress,    \* config.Compress
    fpattern,     \* config.FilenamePattern: "default", "logstyle", "other"
    fmaxBackups,  \* config.MaxBackups
    fdir,         \* the backup files on disk: name -> [data, mtime]
    fslot,        \* the time of the last rotation, at the resolution of the pattern
    fnano,        \* the last value read from time.Now().UnixNano()
    fclock,       \* the last modification time given to a file
    frot,         \* rotations done
    fjobs,        \* the compression goroutines: source name -> position
    fcleanups,    \* cleanupBackups goroutines started and not yet run
    fcrashed,     \* the process was ended by a panic
    ffaults,      \* file-system faults injected so far
    foverwrote,   \* a rotation replaced or truncated an existing backup
    flost,        \* compressFile removed a source without a complete copy
    ffailed,      \* a compression ended in an error or a panic
    fcleaned,     \* a cleanupBackups run has completed since the last rotation
    fdue,         \* the files the last cleanupBackups run had to delete
    fattempted,   \* the files the last cleanupBackups run called Remove for
    \* ---- core.Logger called from one goroutine: SetLevel, the level filter
    \*      and the sampling gate
    srate,        \* config.SamplingRate when a sampler is set, else 0
    smask,        \* l.levelMask, as the set of its bits
    smin,         \* the level of NewLogger or of the last SetLevel
    scount,       \* l.sampler.count
    ssampleCount, \* l.sampler.sampleCount
    scalls,       \* log calls made
    sgate,        \* calls of l.sampler.shouldLog made
    slevelok,     \* log calls that passed the level filter
    spass,        \* the calls of the gate that passed, by their number
    semit,        \* the level-passing log calls written, by their number
    slast,        \* the last log call: [level, min, written, sets]
    ssets,        \* SetLevel calls made
    sended,       \* the program was ended by a FATAL or PANIC call
    \* ---- SamplingLogger of package sampling and of crystal.go
    qvariant,     \* "sampling" (package sampling) or "crystal" (crystal.go)
    qrate,        \* sl.rate
    qcounter,     \* sl.counter
    qcalls,       \* calls of ShouldLog made
    qresult,      \* what the last call returned
    \* ---- core.LogEntry and the entry pool
    pents,        \* the LogEntry objects allocated so far, by identity
    ppool,        \* the entries entryPool holds
    phold,        \* per goroutine: the entry it holds, 0 when none
    ppc,          \* per goroutine: "idle", "fresh" (just acquired), "used"
    pgets,        \* calls of getEntryFromPool made
    plast,        \* per entry: who last released it populated, 0 when nobody
    pcalls,       \* calls of the Set...Field methods made on a held entry
    pkind,        \* the Set...Field method called last
    pswitches,    \* times the method called differed from the one before
    pfault,       \* a Set...Field call indexed Fields out of range
    \* ---- core.TextFormatter and core.JSONFormatter: one entry formatted
    tkind,        \* "text" (TextFormatter) or "json" (JSONFormatter)
    tmask,        \* f.MaskSensitiveData
    tlevel,       \* the level of the entry
    tmsg,         \* the message of the entry, as runs of bytes
    tfields,      \* the fields of the entry
    ttags,        \* the tags of the entry
    tout,         \* the bytes Format returned, as runs; empty until it has
    tdone,        \* Format has returned
    \* ---- core.ParseLevel, called from one goroutine
    vstr,         \* the string given to the last call of ParseLevel
    vlevel,       \* the Level it returned
    verr,         \* it returned an error
    vcalls,       \* calls of ParseLevel made
    \* ---- crystal.go Logger with async logging: submitters, workers and Close
    dq,           \* al.logChan, the queued jobs
    ddone,        \* al.done is closed
    dmu,          \* the holder of l.mu: "free", "close" or "log" (the goroutine at "write")
    dpc,          \* per goroutine (0 the submitter, others workers): its position
    ddrain,       \* per worker: it is in the drain loop after done
    dcl,          \* Logger.Close: "idle", "locked", "waiting", "returned"
    dsub,         \* log calls submitted
    dwritten,     \* jobs and overflow warnings written
    \* ---- core.Logger: SetLevel concurrent with shouldLog
    mmask,        \* l.levelMask, as the set of its bits
    mmin,         \* the level of NewLogger or of the last completed SetLevel
    mpc,          \* SetLevel: "idle", "loop" (storing bit by bit) or "one" (one store pending)
    mlevel,       \* the argument of the running SetLevel
    mi,           \* the loop variable i of the running SetLevel
    mlast,        \* the last shouldLog: [level, mask, old, new, ok]
    mcalls,       \* calls of shouldLog made
    msets,        \* calls of SetLevel begun
    \* ---- RotatingFileWriter.cleanupBackups over the names of the files
    xvariant,     \* "internal" (internal/rotation) or "crystal" (crystal.go)
    xpattern,     \* config.FilenamePattern: "default" or "custom" ("log.<time>.log")
    xmax,         \* config.MaxBackups
    xactive,      \* r.filename: [dir, base], base a sequence of characters
    xfiles,       \* the files on disk: [dir, base] -> modification time
    xclock,       \* the clock of the file system, at the resolution of its time stamps
    xrot,         \* rotations attempted
    xcleanups,    \* cleanupBackups goroutines started and not yet run
    xremoved,     \* the files the cleanup runs have removed
    xbackups      \* the files rotations have produced

avars == <<ajobs, ajobsClosed, aclosed, apc, ajob, awritten, aaccepted,
           adropped, anext, abefore, apending, acl, acrashed, aerrs>>

rvars == <<rvariant, rmaxSize, rtimed, rmu, rpc, rarg, rcurrentSize, rfileOpen,
           rexists, rdue, rrot, rsizeAfterRot, rcalls, rdone, rsum, rfaults,
           rcrashed>>

bvars == <<bbuf, bdone, bpc, bslice, bbatch, bfinal, bres, bok, bsink,
           bsinkClosed, bfaults, btotal, bdropped, bflushes, bcl, bmark, bcap,
           btimerArmed, bsnap>>

lvars == <<lbuffered, lhooks, lerrOut, llevelMask, lrate, lcount, lmu, lpc,
           llevel, lid, lcalls, lerrSink, lerrs, lonFatal, lexit, lexitId>>

cvars == <<cbuf, cdone, cwpc, cwafter, cbatch, cpc, cres, csink, csinkClosed,
           cfaults, ctotal, cdropped, cqueued, cbefore, ccl>>

kvars == <<kdisableLocking, klevelMask, kmu, kstack, kcalls, kslow, ksink,
           kfaults, kerrs, kexit>>

evars == <<emsg, emax, ehost, elevel, emin, easync, ectx, epc, eacquired,
           ecopied, eMessageLen, eHostnameLen, ejobctx, efields, eout, efault,
           emarker>>

fvars == <<fvariant, fcompress, fpattern, fmaxBackups, fdir, fslot, fnano,
           fclock, frot, fjobs, fcleanups, fcrashed, ffaults, foverwrote,
           flost, ffailed, fcleaned, fdue, fattempted>>

svars == <<srate, smask, smin, scount, ssampleCount, scalls, sgate, slevelok,
           spass, semit, slast, ssets, sended>>

qvars == <<qvariant, qrate, qcounter, qcalls, qresult>>

pvars == <<pents, ppool, phold, ppc, pgets, plast, pcalls, pkind, pswitches,
           pfault>>

tvars == <<tkind, tmask, tlevel, tmsg, tfields, ttags, tout, tdone>>

vvars == <<vstr, vlevel, verr, vcalls>>

dvars == <<dq, ddone, dmu, dpc, ddrain, dcl, dsub, dwritten>>

mvars == <<mmask, mmin, mpc, mlevel, mi, mlast, mcalls, msets>>

xvars == <<xvariant, xpattern, xmax, xactive, xfiles, xclock, xrot,
           xcleanups, xremoved, xbackups>>

vars == <<avars, rvars, bvars, lvars, cvars, kvars, evars, fvars, svars,
          qvars, pvars, tvars, vvars, dvars, mvars, xvars>>

\* What the actions of one component leave unchanged: the other components.
aothers == <<rvars, bvars, lvars, cvars, kvars, evars, fvars, svars, qvars,
            pvars, tvars, vvars, dvars, mvars, xvars>>
rothers == <<avars, bvars, lvars, cvars, kvars, evars, fvars, svars, qvars,
            pvars, tvars, vvars, dvars, mvars, xvars>>
bothers == <<avars, rvars, lvars, cvars, kvars, evars, fvars, svars, qvars,
            pvars, tvars, vvars, dvars, mvars, xvars>>
lothers == <<avars, rvars, cvars, kvars, evars, fvars, svars, qvars,
            pvars, tvars, vvars, dvars, mvars, xvars>>
cothers == <<avars, rvars, bvars, lvars, kvars, evars, fvars, svars, qvars,
            pvars, tvars, vvars, dvars, mvars, xvars>>
kothers == <<avars, rvars, bvars, lvars, cvars, evars, fvars, svars, qvars,
            pvars, tvars, vvars, dvars, mvars, xvars>>
eothers == <<avars, rvars, bvars, lvars, cvars, kvars, fvars, svars, qvars,
            pvars, tvars, vvars, dvars, mvars, xvars>>
fothers == <<avars, rvars, bvars, lvars, cvars, kvars, evars, svars, qvars,
            pvars, tvars, vvars, dvars, mvars, xvars>>
sothers == <<avars, rvars, bvars, lvars, cvars, kvars, evars, fvars, qvars,
            pvars, tvars, vvars, dvars, mvars, xvars>>
qothers == <<avars, rvars, bvars, lvars, cvars, kvars, evars, fvars, svars,
            pvars, tvars, vvars, dvars, mvars, xvars>>
pothers == <<avars, rvars, bvars, lvars, cvars, kvars, evars, fvars, svars,
            qvars, tvars, vvars, dvars, mvars, xvars>>
tothers == <<avars, rvars, bvars, lvars, cvars, kvars, evars, fvars, svars,
            qvars, pvars, vvars, dvars, mvars, xvars>>
vothers == <<avars, rvars, bvars, lvars, cvars, kvars, evars, fvars, svars,
            qvars, pvars, tvars, dvars, mvars, xvars>>
dothers == <<avars, rvars, bvars, lvars, cvars, kvars, evars, fvars, svars,
            qvars, pvars, tvars, vvars, mvars, xvars>>
mothers == <<avars, rvars, bvars, lvars, cvars, kvars, evars, fvars, svars,
            qvars, pvars, tvars, vvars, dvars, xvars>>
xothers == <<avars, rvars, bvars, lvars, cvars, kvars, evars, fvars, svars,
            qvars, pvars, tvars, vvars, dvars, mvars>>

-----------------------------------------------------------------------------
(***************************************************************************)
(* Bounds of the model.                                                    *)
(***************************************************************************)
\* Number of submissions the callers make to the AsyncLogger.
MaxJobs == 3
\* Capacity of al.jobs (bufferSize of NewAsyncLogger).
AQueueCap == 2
\* Number of worker goroutines (workers of NewAsyncLogger).
NWorkers == 2
\* Number of goroutines that call RotatingFileWriter.Write.
NRotWriters == 2
\* Number of Write calls made on the RotatingFileWriter.
MaxRotWrites == 3
\* Number of file-system faults (close, rename, create, write) injected.
MaxRotFaults == 1
\* Number of goroutines that call the BufferedWriter or the Logger.
NCallers == 2
\* Capacity of bw.buffer (bufferSize of NewBufferedWriter).
BQueueCap == 2
\* Number of Write calls made on the BufferedWriter.
MaxBWrites == 3
\* Number of caller-side Flush calls made on the BufferedWriter.
MaxBFlushes == 1
\* Number of sink and formatter faults injected.
MaxSinkFaults == 1
\* Number of log calls made on the Logger.
MaxLogCalls == 2
\* Number of Write calls made on the BufferedWriter of crystal.go.
MaxCWrites == 3
\* Number of calls of the public log methods of the Logger of crystal.go.
MaxKCalls == 2
\* Number of log calls that last more than 100 ms.
MaxSlow == 2
\* Number of rotations of the RotatingFileWriter.
MaxRotations == 3
\* The last time slot (the time at the resolution of the filename pattern).
MaxSlot == 2
\* The largest MaxBackups configured.
MaxBackupsCfg == 2
\* Number of file-system faults injected.
MaxFsFaults == 2
\* The largest sampling rate configured.
MaxRate == 3
\* Number of log calls made on the Logger with the sampling gate.
MaxSCalls == 7
\* Number of SetLevel calls made.
MaxSetLevels == 2
\* Number of calls of ShouldLog made on the SamplingLogger.
MaxQCalls == 12
\* Number of goroutines that use the entry pool.
NPoolUsers == 2
\* Number of LogEntry objects allocated.
MaxEntries == 2
\* Number of calls of getEntryFromPool made.
MaxGets == 3
\* The largest message length, tag count, metric count and trace id length
\* one use of an entry sets.
MaxPop == 1
\* The largest number of key-value pairs one log call passes.
MaxPopFields == 1
\* Number of calls of the Set...Field methods made on one entry.
MaxSetCalls == 18
\* Times the Set...Field method called differs from the one called before.
MaxSwitches == 1
\* The largest number of runs of equal bytes a message is made of.
MaxRuns == 2
\* The largest number of fields and of tags of a formatted entry.
MaxTFields == 1
MaxTTags == 1
\* The length of an ordinary field value or tag.
MaxValLen == 2
\* Number of calls of ParseLevel made.
MaxParseCalls == 8
\* Workers of the crystal.go AsyncLogger, capacity of its channel, and
\* number of log calls submitted to it.
NDWorkers == 2
DQueueCap == 1
MaxDJobs == 3
\* Calls of SetLevel begun and calls of shouldLog made while following the
\* level mask.
MaxMSets == 2
MaxMCalls == 1
\* Rotations attempted and ticks of the file system's clock while following
\* the names of the files.
MaxXRot == 3
MaxXClock == 2

-----------------------------------------------------------------------------
(***************************************************************************)
(* core.AsyncLogger                                                        *)
(***************************************************************************)
AWorkers == 1..NWorkers

\* The state NewAsyncLogger returns: an empty queue, every worker started.
AInit ==
    /\ ajobs = << >>
    /\ ajobsClosed = FALSE
    /\ aclosed = FALSE
    /\ apc = [w \in AWorkers |-> "select"]
    /\ ajob = [w \in AWorkers |-> 0]
    /\ awritten = {}
    /\ aaccepted = {}
    /\ adropped = {}
    /\ anext = 0
    /\ abefore = {}
    /\ apending = {}
    /\ acl = "idle"
    /\ acrashed = "none"
    /\ aerrs = 0

\* The AsyncLogger is not instantiated.
AOff ==
    /\ ajobs = << >>
    /\ ajobsClosed = FALSE
    /\ aclosed = FALSE
    /\ apc = [w \in AWorkers |-> "done"]
    /\ ajob = [w \in AWorkers |-> 0]
    /\ awritten = {}
    /\ aaccepted = {}
    /\ adropped = {}
    /\ anext = 0
    /\ abefore = {}
    /\ apending = {}
    /\ acl = "idle"
    /\ acrashed = "none"
    /\ aerrs = 0

\* AsyncLogger.LogEntry with a blocking send: a job submitted to a full
\* queue is enqueued all the same, and nothing is reported.
ALogEntry_BlockingSend ==
    /\ acrashed = "none"
    /\ anext < MaxJobs
    /\ anext' = anext + 1
    /\ IF ajobsClosed
         THEN /\ acrashed' = "send on closed channel"
              /\ UNCHANGED <<ajobs, aaccepted>>
         ELSE /\ acrashed' = acrashed
              /\ ajobs' = Append(ajobs, anext + 1)
              /\ aaccepted' = aaccepted \cup {anext + 1}
    /\ UNCHANGED <<adropped, aerrs>>
    /\ UNCHANGED <<ajobsClosed, aclosed, apc, ajob, awritten, abefore, apending, acl>>
    /\ UNCHANGED aothers

\* AsyncLogger.LogEntry: a non-blocking send; on a full queue the entry
\* goes back to the pool and the error handler is called.  A send on a
\* closed channel panics, also inside a select with a default case.
ALogEntry ==
    /\ acrashed = "none"
    /\ anext < MaxJobs
    /\ anext' = anext + 1
    /\ IF ajobsClosed
         THEN /\ acrashed' = "send on closed channel"
              /\ UNCHANGED <<ajobs, aaccepted, adropped, aerrs>>
         ELSE /\ acrashed' = acrashed
              /\ IF Len(ajobs) < AQueueCap
                   THEN /\ ajobs' = Append(ajobs, anext + 1)
                        /\ aaccepted' = aaccepted \cup {anext + 1}
                        /\ UNCHANGED <<adropped, aerrs>>
                   ELSE /\ adropped' = adropped \cup {anext + 1}
                        /\ aerrs' = aerrs + 1
                        /\ UNCHANGED <<ajobs, aaccepted>>
    /\ UNCHANGED <<ajobsClosed, aclosed, apc, ajob, awritten, abefore, apending, acl>>
    /\ UNCHANGED aothers

\* The receive `job := <-al.jobs` of worker w, in the main select or in the
\* drain loop: the head of the queue, or nil at once from a closed and
\* empty channel.  next is the position after a job was received.
ARecv(w, next) ==
    \/ /\ ajobs # << >>
       /\ ajob' = [ajob EXCEPT ![w] = Head(ajobs)]
       /\ ajobs' = Tail(ajobs)
       /\ apc' = [apc EXCEPT ![w] = next]
       /\ acrashed' = acrashed
    \/ /\ ajobs = << >>
       /\ ajobsClosed
       \* job is nil: job.entry is a nil pointer dereference
       /\ ajob' = [ajob EXCEPT ![w] = 0]
       /\ acrashed' = "nil pointer dereference"
       /\ UNCHANGED <<ajobs, apc>>

\* The main select of AsyncLogger.worker.
AWorkerSelect(w) ==
    /\ acrashed = "none"
    /\ apc[w] = "select"
    /\ \/ ARecv(w, "process")
       \/ /\ aclosed
          /\ apc' = [apc EXCEPT ![w] = "drain"]
          /\ UNCHANGED <<ajobs, ajob, acrashed>>
    /\ UNCHANGED <<ajobsClosed, aclosed, awritten, aaccepted, adropped,
                   anext, abefore, apending, acl>>
    /\ UNCHANGED aerrs
    /\ UNCHANGED aothers

\* al.logger.logEntry(job.entry, job.ctx) for the job in hand.
AWorkerProcess(w) ==
    /\ acrashed = "none"
    /\ apc[w] \in {"process", "drainProcess"}
    /\ awritten' = awritten \cup {ajob[w]}
    /\ apc' = [apc EXCEPT ![w] = IF apc[w] = "process" THEN "select" ELSE "drain"]
    /\ UNCHANGED <<ajobs, ajobsClosed, aclosed, ajob, aaccepted, adropped,
                   anext, abefore, apending, acl, acrashed>>
    /\ UNCHANGED aerrs
    /\ UNCHANGED aothers

\* The drain loop entered on <-al.closed: receive, or return (wg.Done) when
\* no receive is ready.
AWorkerDrain(w) ==
    /\ acrashed = "none"
    /\ apc[w] = "drain"
    /\ \/ ARecv(w, "drainProcess")
       \/ /\ ajobs = << >>
          /\ ~ajobsClosed
          /\ apc' = [apc EXCEPT ![w] = "done"]
          /\ UNCHANGED <<ajobs, ajob, acrashed>>
    /\ UNCHANGED <<ajobsClosed, aclosed, awritten, aaccepted, adropped,
                   anext, abefore, apending, acl>>
    /\ UNCHANGED aerrs
    /\ UNCHANGED aothers

\* AsyncLogger.Close: close(al.closed); close(al.jobs); al.wg.Wait().
ACloseSignal ==
    /\ acrashed = "none"
    /\ acl = "idle"
    /\ aclosed' = TRUE
    /\ abefore' = aaccepted
    /\ apending' = aaccepted \ awritten
    /\ acl' = "signalled"
    /\ UNCHANGED <<ajobs, ajobsClosed, apc, ajob, awritten, aaccepted,
                   adropped, anext, acrashed>>
    /\ UNCHANGED aerrs
    /\ UNCHANGED aothers

ACloseJobs ==
    /\ acrashed = "none"
    /\ acl = "signalled"
    /\ ajobsClosed' = TRUE
    /\ acl' = "waiting"
    /\ UNCHANGED <<ajobs, aclosed, apc, ajob, awritten, aaccepted, adropped,
                   anext, abefore, apending, acrashed>>
    /\ UNCHANGED aerrs
    /\ UNCHANGED aothers

ACloseWait ==
    /\ acrashed = "none"
    /\ acl = "waiting"
    /\ \A w \in AWorkers : apc[w] = "done"
    /\ acl' = "returned"
    /\ UNCHANGED <<ajobs, ajobsClosed, aclosed, apc, ajob, awritten,
                   aaccepted, adropped, anext, abefore, apending, acrashed>>
    /\ UNCHANGED aerrs
    /\ UNCHANGED aothers

AClose == ACloseSignal \/ ACloseJobs \/ ACloseWait

ANext ==
    \/ ALogEntry
    \/ \E w \in AWorkers : AWorkerSelect(w)
    \/ \E w \in AWorkers : AWorkerProcess(w)
    \/ \E w \in AWorkers : AWorkerDrain(w)
    \/ AClose


-----------------------------------------------------------------------------
(***************************************************************************)
(* RotatingFileWriter.  Write and needsRotation are the same text in       *)
(* internal/rotation/rotation.go and in crystal.go; rotate differs: the    *)
(* one of internal/rotation locks r.mu again.  sync.Mutex is not           *)
(* reentrant and has no owner: Lock waits until the mutex is unlocked,     *)
(* whoever locked it.                                                      *)
(***************************************************************************)
RProcs == 1..NRotWriters

\* The values of config.MaxSize and of len(p) the model draws from.
RMaxSizes == {100}
RWriteSizes == {1, 50, 51, 100}

\* NewRotatingFileWriter on a path with no file: a fresh empty file is open.
RInit ==
    /\ rvariant \in {"internal", "crystal"}
    /\ rmaxSize \in RMaxSizes
    /\ rtimed \in BOOLEAN
    /\ rmu = 0
    /\ rpc = [p \in RProcs |-> "idle"]
    /\ rarg = [p \in RProcs |-> 0]
    /\ rcurrentSize = 0
    /\ rfileOpen = TRUE
    /\ rexists = TRUE
    /\ rdue = FALSE
    /\ rrot = 0
    /\ rsizeAfterRot = -1
    /\ rcalls = 0
    /\ rdone = 0
    /\ rsum = 0
    /\ rfaults = 0
    /\ rcrashed = FALSE

\* No RotatingFileWriter is instantiated.
ROff ==
    /\ rvariant = "crystal"
    /\ rmaxSize = 0
    /\ rtimed = FALSE
    /\ rmu = 0
    /\ rpc = [p \in RProcs |-> "idle"]
    /\ rarg = [p \in RProcs |-> 0]
    /\ rcurrentSize = 0
    /\ rfileOpen = FALSE
    /\ rexists = FALSE
    /\ rdue = FALSE
    /\ rrot = 0
    /\ rsizeAfterRot = -1
    /\ rcalls = 0
    /\ rdone = 0
    /\ rsum = 0
    /\ rfaults = 0
    /\ rcrashed = FALSE

\* needsRotation: the size trigger, or one of the two time triggers.
needsRotation ==
    \/ rmaxSize > 0 /\ rcurrentSize >= rmaxSize
    \/ rtimed /\ rdue

\* Time passes: the configured interval since r.lastRotation has elapsed.
RTick ==
    /\ ~rcrashed
    /\ rtimed
    /\ ~rdue
    /\ rdue' = TRUE
    /\ UNCHANGED <<rvariant, rmaxSize, rtimed, rmu, rpc, rarg, rcurrentSize,
                   rfileOpen, rexists, rrot, rsizeAfterRot, rcalls, rdone,
                   rsum, rfaults, rcrashed>>
    /\ UNCHANGED rothers

\* A goroutine calls Write(p) with len(p) = n.
RWriteCall(p, n) ==
    /\ ~rcrashed
    /\ rpc[p] = "idle"
    /\ rcalls < MaxRotWrites
    /\ rcalls' = rcalls + 1
    /\ rarg' = [rarg EXCEPT ![p] = n]
    /\ rpc' = [rpc EXCEPT ![p] = "lock"]
    /\ UNCHANGED <<rvariant, rmaxSize, rtimed, rmu, rcurrentSize, rfileOpen,
                   rexists, rdue, rrot, rsizeAfterRot, rdone, rsum, rfaults,
                   rcrashed>>
    /\ UNCHANGED rothers

\* r.mu.Lock(): at the top of Write, and at the top of rotate in
\* internal/rotation.  It returns once the mutex is unlocked.
RLock(p) ==
    /\ ~rcrashed
    /\ rpc[p] \in {"lock", "rotate_lock"}
    /\ rmu = 0
    /\ rmu' = p
    /\ rpc' = [rpc EXCEPT ![p] = IF rpc[p] = "lock" THEN "check" ELSE "rotate"]
    /\ UNCHANGED <<rvariant, rmaxSize, rtimed, rarg, rcurrentSize, rfileOpen,
                   rexists, rdue, rrot, rsizeAfterRot, rcalls, rdone, rsum,
                   rfaults, rcrashed>>
    /\ UNCHANGED rothers

\* if r.needsRotation() { r.rotate() }: the call of rotate.
RCheck(p) ==
    /\ ~rcrashed
    /\ rpc[p] = "check"
    /\ rpc' = [rpc EXCEPT ![p] =
                  IF needsRotation
                    THEN (IF rvariant = "internal" THEN "rotate_lock" ELSE "rotate")
                    ELSE "file_write"]
    /\ UNCHANGED <<rvariant, rmaxSize, rtimed, rmu, rarg, rcurrentSize,
                   rfileOpen, rexists, rdue, rrot, rsizeAfterRot, rcalls,
                   rdone, rsum, rfaults, rcrashed>>
    /\ UNCHANGED rothers

\* The body of rotate: close the file, rename it, create a fresh one, reset
\* the size counter and the rotation clock.  f is the step that fails
\* ("none": no step).  Closing a closed handle fails, and so does renaming
\* a path that holds no file.  On an error Write returns (0, err).  The
\* rotate of internal/rotation ends with its deferred r.mu.Unlock().
RRotate(p) ==
    /\ ~rcrashed
    /\ rpc[p] = "rotate"
    /\ \E f \in {"none", "close", "rename", "create"} :
         LET inject  == IF f = "none" THEN 0 ELSE 1
             closeEr == f = "close" \/ ~rfileOpen
             renamEr == ~closeEr /\ (f = "rename" \/ ~rexists)
             creatEr == ~closeEr /\ ~renamEr /\ f = "create"
             ok      == ~closeEr /\ ~renamEr /\ ~creatEr
         IN  /\ rfaults + inject <= MaxRotFaults
             /\ rfaults' = rfaults + inject
             /\ rfileOpen' = ok
             /\ rexists' = IF closeEr \/ renamEr THEN rexists ELSE ok
             /\ rcurrentSize' = IF ok THEN 0 ELSE rcurrentSize
             /\ rdue' = IF ok THEN FALSE ELSE rdue
             /\ rrot' = IF ok THEN rrot + 1 ELSE rrot
             /\ rsizeAfterRot' = IF ok THEN 0 ELSE rsizeAfterRot
             /\ rpc' = [rpc EXCEPT ![p] = IF ok THEN "file_write" ELSE "unlock"]
    /\ rmu' = IF rvariant = "internal" THEN 0 ELSE rmu
    /\ UNCHANGED <<rvariant, rmaxSize, rtimed, rarg, rcalls, rdone, rsum,
                   rcrashed>>
    /\ UNCHANGED rothers

\* n, err = r.file.Write(p); r.currentSize += int64(n).
RFileWrite(p) ==
    /\ ~rcrashed
    /\ rpc[p] = "file_write"
    /\ \E fault \in BOOLEAN :
         LET inject == IF fault THEN 1 ELSE 0
             ok     == rfileOpen /\ ~fault
         IN  /\ rfaults + inject <= MaxRotFaults
             /\ rfaults' = rfaults + inject
             /\ rcurrentSize' = IF ok THEN rcurrentSize + rarg[p] ELSE rcurrentSize
             /\ rsum' = IF ok THEN rsum + rarg[p] ELSE rsum
    /\ rpc' = [rpc EXCEPT ![p] = "unlock"]
    /\ UNCHANGED <<rvariant, rmaxSize, rtimed, rmu, rarg, rfileOpen, rexists,
                   rdue, rrot, rsizeAfterRot, rcalls, rdone, rcrashed>>
    /\ UNCHANGED rothers

\* The deferred r.mu.Unlock() of Write, and the return.  Unlocking an
\* unlocked mutex is a fatal error of the runtime.
RUnlock(p) ==
    /\ ~rcrashed
    /\ rpc[p] = "unlock"
    /\ rcrashed' = (rmu = 0)
    /\ rmu' = 0
    /\ rpc' = [rpc EXCEPT ![p] = "idle"]
    /\ rdone' = rdone + 1
    /\ UNCHANGED <<rvariant, rmaxSize, rtimed, rarg, rcurrentSize, rfileOpen,
                   rexists, rdue, rrot, rsizeAfterRot, rcalls, rsum, rfaults>>
    /\ UNCHANGED rothers

\* One step of a Write call in progress.
RStep(p) == RLock(p) \/ RCheck(p) \/ RRotate(p) \/ RFileWrite(p) \/ RUnlock(p)

RNext ==
    \/ RTick
    \/ \E p \in RProcs, n \in RWriteSizes : RWriteCall(p, n)
    \/ \E p \in RProcs : RStep(p)

-----------------------------------------------------------------------------
(***************************************************************************)
(* outputs.BufferedWriter.  A call of bw.writer.Write is two steps, entry  *)
(* and return, so that calls of different goroutines can overlap; the      *)
(* sink takes the bytes at the entry.                                      *)
(***************************************************************************)
BCallers == 1..NCallers
BProcs == {0} \cup BCallers

\* The state NewBufferedWriter returns: an empty channel, the worker started.
BInit ==
    /\ bbuf = << >>
    /\ bdone = FALSE
    /\ bpc = [p \in BProcs |-> IF p = 0 THEN "select" ELSE "idle"]
    /\ bslice = [p \in BProcs |-> 0]
    /\ bbatch = [p \in BProcs |-> << >>]
    /\ bfinal = FALSE
    /\ bres = [p \in BProcs |-> "ok"]
    /\ bok = {}
    /\ bsink = << >>
    /\ bsinkClosed = FALSE
    /\ bfaults = 0
    /\ btotal = 0
    /\ bdropped = 0
    /\ bflushes = 0
    /\ bcl = "idle"
    /\ bmark = -1
    /\ bcap \in 1..BQueueCap
    /\ btimerArmed = FALSE
    /\ bsnap = [p \in BProcs |-> << >>]

\* No BufferedWriter is instantiated (the Logger has BufferSize = 0): the
\* sink variables are still those of the Logger's output.
BOff ==
    /\ bbuf = << >>
    /\ bdone = FALSE
    /\ bpc = [p \in BProcs |-> IF p = 0 THEN "exit" ELSE "idle"]
    /\ bslice = [p \in BProcs |-> 0]
    /\ bbatch = [p \in BProcs |-> << >>]
    /\ bfinal = FALSE
    /\ bres = [p \in BProcs |-> "ok"]
    /\ bok = {}
    /\ bsink = << >>
    /\ bsinkClosed = FALSE
    /\ bfaults = 0
    /\ btotal = 0
    /\ bdropped = 0
    /\ bflushes = 0
    /\ bcl = "idle"
    /\ bmark = -1
    /\ bcap = 0
    /\ btimerArmed = FALSE
    /\ bsnap = [p \in BProcs |-> << >>]

\* The process has not been ended by the Logger (exit function or panic).
Running == lexit = "none"

\* The goroutines inside a Write call of the underlying sink.
BInSink == {p \in BProcs : bpc[p] \in {"direct_in", "flush_in"}}

\* The slices the sink has accepted, in the order of their arrival.
RECURSIVE Flatten(_)
Flatten(ss) == IF ss = << >> THEN << >> ELSE Head(ss) \o Flatten(Tail(ss))

BSinkSlices == {Flatten(bsink)[i] : i \in 1..Len(Flatten(bsink))}

\* Entry of a call bw.writer.Write(batch): the sink accepts the bytes, or
\* rejects them (it is closed, or a fault is injected).  ok' tells which.
BSinkAccepts(batch, fault) ==
    /\ fault => bfaults < MaxSinkFaults
    /\ bfaults' = IF fault THEN bfaults + 1 ELSE bfaults
    /\ bsink' = IF fault \/ bsinkClosed THEN bsink ELSE Append(bsink, batch)

\* Write without the count of the overflow: the default case writes
\* directly and leaves droppedLogs alone.
BWriteSelect_NoCount(g, id) ==
    /\ btotal' = btotal + 1
    /\ bslice' = [bslice EXCEPT ![g] = id]
    /\ \/ /\ Len(bbuf) < bcap
          /\ bbuf' = Append(bbuf, id)
          /\ bres' = [bres EXCEPT ![g] = "ok"]
          /\ bok' = bok \cup {id}
          /\ bpc' = [bpc EXCEPT ![g] = "idle"]
          /\ bdropped' = bdropped
       \/ /\ bdone \/ ~(Len(bbuf) < bcap)
          /\ bpc' = [bpc EXCEPT ![g] = "direct"]
          /\ UNCHANGED <<bbuf, bres, bok, bdropped>>

\* BufferedWriter.Write(p) by goroutine g, for slice id: count the call,
\* then the select: enqueue and return; or, when done is closed, or (the
\* default case) when no other case is ready, go on to write directly.
BWriteSelect(g, id) ==
    /\ btotal' = btotal + 1
    /\ bslice' = [bslice EXCEPT ![g] = id]
    /\ \/ /\ Len(bbuf) < bcap
          /\ bbuf' = Append(bbuf, id)
          /\ bres' = [bres EXCEPT ![g] = "ok"]
          /\ bok' = bok \cup {id}
          /\ bpc' = [bpc EXCEPT ![g] = "idle"]
          /\ bdropped' = bdropped
       \/ /\ bdone
          /\ bpc' = [bpc EXCEPT ![g] = "direct"]
          /\ UNCHANGED <<bbuf, bres, bok, bdropped>>
       \/ /\ ~(Len(bbuf) < bcap)
          /\ ~bdone
          /\ bdropped' = bdropped + 1
          /\ bpc' = [bpc EXCEPT ![g] = "direct"]
          /\ UNCHANGED <<bbuf, bres, bok>>

\* A goroutine calls bw.Write.
BWrite(g) ==
    /\ Running
    /\ bpc[g] = "idle"
    /\ btotal < MaxBWrites
    /\ BWriteSelect(g, btotal + 1)
    /\ UNCHANGED <<bdone, bbatch, bfinal, bsink, bsinkClosed, bfaults,
                   bflushes, bcl, bmark>>
    /\ UNCHANGED <<bcap, btimerArmed, bsnap>>
    /\ UNCHANGED bothers

\* return bw.writer.Write(p): the entry of the direct write of Write.
BDirectBegin(g) ==
    /\ Running
    /\ bpc[g] = "direct"
    /\ \E fault \in BOOLEAN :
         /\ BSinkAccepts(<<bslice[g]>>, fault)
         /\ bres' = [bres EXCEPT ![g] =
                        IF fault \/ bsinkClosed THEN "err" ELSE "ok"]
         /\ bok' = IF fault \/ bsinkClosed THEN bok ELSE bok \cup {bslice[g]}
    /\ bpc' = [bpc EXCEPT ![g] = "direct_in"]
    /\ UNCHANGED <<bbuf, bdone, bslice, bbatch, bfinal, bsinkClosed, btotal,
                   bdropped, bflushes, bcl, bmark>>
    /\ UNCHANGED <<bcap, btimerArmed, bsnap>>
    /\ UNCHANGED bothers

\* The return of the direct write, and of Write.
BDirectEnd(g) ==
    /\ Running
    /\ bpc[g] = "direct_in"
    /\ bpc' = [bpc EXCEPT ![g] = "idle"]
    /\ UNCHANGED <<bbuf, bdone, bslice, bbatch, bfinal, bres, bok, bsink,
                   bsinkClosed, bfaults, btotal, bdropped, bflushes, bcl,
                   bmark>>
    /\ UNCHANGED <<bcap, btimerArmed, bsnap>>
    /\ UNCHANGED bothers

\* A goroutine calls bw.Flush: it starts collectBatch.
BFlushStart(g) ==
    /\ bpc' = [bpc EXCEPT ![g] = "collect"]
    /\ bbatch' = [bbatch EXCEPT ![g] = << >>]
    /\ bsnap' = [bsnap EXCEPT ![g] = bbuf]

BFlush(g) ==
    /\ Running
    /\ g # 0
    /\ bpc[g] = "idle"
    /\ bflushes < MaxBFlushes
    /\ bflushes' = bflushes + 1
    /\ BFlushStart(g)
    /\ UNCHANGED <<bbuf, bdone, bslice, bfinal, bres, bok, bsink,
                   bsinkClosed, bfaults, btotal, bdropped, bcl, bmark>>
    /\ UNCHANGED <<bcap, btimerArmed>>
    /\ UNCHANGED bothers

\* The select of flushWorker: done is closed, the ticker fires, or the
\* batch timer fires.  The batch timer is stopped before the loop
\* (NewBufferedWriter leaves it so), stopped again by the ticker case, and
\* re-armed only by the Reset of its own case; the worker being the only
\* user of the timer, Stop and Reset are taken with the select.
BWorkerSelect ==
    /\ Running
    /\ bpc[0] = "select"
    /\ \E wake \in {"done", "ticker", "batchTimer"} :
         /\ wake = "done" => bdone
         /\ wake = "batchTimer" => btimerArmed
         /\ bfinal' = (wake = "done")
         /\ btimerArmed' = IF wake = "done" THEN btimerArmed
                           ELSE (wake = "batchTimer")
    /\ BFlushStart(0)
    /\ UNCHANGED <<bbuf, bdone, bslice, bres, bok, bsink, bsinkClosed,
                   bfaults, btotal, bdropped, bflushes, bcl, bmark>>
    /\ UNCHANGED bcap
    /\ UNCHANGED bothers

\* One turn of the loop of collectBatch: receive a slice, or (default)
\* return the batch to flushBatch.
BCollect(p) ==
    /\ Running
    /\ bpc[p] = "collect"
    /\ IF bbuf # << >>
         THEN /\ bbatch' = [bbatch EXCEPT ![p] = Append(bbatch[p], Head(bbuf))]
              /\ bbuf' = Tail(bbuf)
              /\ bpc' = bpc
         ELSE /\ bpc' = [bpc EXCEPT ![p] = "flush"]
              /\ UNCHANGED <<bbuf, bbatch>>
    /\ UNCHANGED <<bdone, bslice, bfinal, bres, bok, bsink, bsinkClosed,
                   bfaults, btotal, bdropped, bflushes, bcl, bmark>>
    /\ UNCHANGED <<bcap, btimerArmed, bsnap>>
    /\ UNCHANGED bothers

\* Where flushBatch returns to: the loop of the worker, its exit after the
\* shutdown flush (wg.Done), or the caller of Flush.
BAfterFlush(p) ==
    IF p = 0 THEN (IF bfinal THEN "exit" ELSE "select") ELSE "idle"

\* flushBatch: nothing for an empty batch; else the entry of one Write of
\* the concatenated batch.  An error is printed and dropped.
BFlushBegin(p) ==
    /\ Running
    /\ bpc[p] = "flush"
    /\ IF bbatch[p] = << >>
         THEN /\ bpc' = [bpc EXCEPT ![p] = BAfterFlush(p)]
              /\ bsnap' = [bsnap EXCEPT ![p] = << >>]
              /\ UNCHANGED <<bsink, bfaults>>
         ELSE /\ \E fault \in BOOLEAN : BSinkAccepts(bbatch[p], fault)
              /\ bpc' = [bpc EXCEPT ![p] = "flush_in"]
              /\ bsnap' = bsnap
    /\ UNCHANGED <<bbuf, bdone, bslice, bbatch, bfinal, bres, bok,
                   bsinkClosed, btotal, bdropped, bflushes, bcl, bmark>>
    /\ UNCHANGED <<bcap, btimerArmed>>
    /\ UNCHANGED bothers

\* The return of the batch write, and of flushBatch.
BFlushEnd(p) ==
    /\ Running
    /\ bpc[p] = "flush_in"
    /\ bpc' = [bpc EXCEPT ![p] = BAfterFlush(p)]
    /\ bbatch' = [bbatch EXCEPT ![p] = << >>]
    /\ bsnap' = [bsnap EXCEPT ![p] = << >>]
    /\ UNCHANGED <<bbuf, bdone, bslice, bfinal, bres, bok, bsink,
                   bsinkClosed, bfaults, btotal, bdropped, bflushes, bcl,
                   bmark>>
    /\ UNCHANGED <<bcap, btimerArmed>>
    /\ UNCHANGED bothers

\* BufferedWriter.Close: close(bw.done); bw.wg.Wait(); close the sink.
BCloseSignal ==
    /\ Running
    /\ bcl = "idle"
    /\ bdone' = TRUE
    /\ bcl' = "waiting"
    /\ UNCHANGED <<bbuf, bpc, bslice, bbatch, bfinal, bres, bok, bsink,
                   bsinkClosed, bfaults, btotal, bdropped, bflushes, bmark>>
    /\ UNCHANGED <<bcap, btimerArmed, bsnap>>
    /\ UNCHANGED bothers

BCloseWait ==
    /\ Running
    /\ bcl = "waiting"
    /\ bpc[0] = "exit"
    /\ bsinkClosed' = TRUE
    /\ bcl' = "returned"
    /\ bmark' = btotal
    /\ UNCHANGED <<bbuf, bdone, bpc, bslice, bbatch, bfinal, bres, bok, bsink,
                   bfaults, btotal, bdropped, bflushes>>
    /\ UNCHANGED <<bcap, btimerArmed, bsnap>>
    /\ UNCHANGED bothers

BClose == BCloseSignal \/ BCloseWait

\* The steps inside the BufferedWriter, of the worker and of the callers.
BInner ==
    \/ BWorkerSelect
    \/ \E p \in BProcs : BCollect(p)
    \/ \E p \in BProcs : BFlushBegin(p)
    \/ \E p \in BProcs : BFlushEnd(p)
    \/ \E g \in BCallers : BDirectBegin(g)
    \/ \E g \in BCallers : BDirectEnd(g)

BNext ==
    \/ \E g \in BCallers : BWrite(g)
    \/ \E g \in BCallers : BFlush(g)
    \/ BInner
    \/ BClose

-----------------------------------------------------------------------------
(***************************************************************************)
(* core.Logger: the public log methods and logEntry, run by the calling    *)
(* goroutine (AsyncLogging off).  With BufferSize > 0 the bytes go through *)
(* the outputs.BufferedWriter above; without, bsink is config.Output and   *)
(* lerrSink is config.ErrorOutput.                                         *)
(***************************************************************************)
TRACE == 0
DEBUG == 1
INFO == 2
NOTICE == 3
WARN == 4
ERROR == 5
FATAL == 6
PANIC == 7
Levels == TRACE..PANIC

\* The levels the callers of the model log at.
LLevels == {DEBUG, INFO, FATAL, PANIC}

\* A mask without the bit of min itself.
LevelMask_Above(min) == {i \in Levels : i > min}

\* The mask NewLogger and SetLevel compute: the bits of the levels >= min.
LevelMask(min) == {i \in Levels : i >= min}

\* Logger.shouldLog: the bit of the level is set in l.levelMask.
shouldLog(level) == level \in llevelMask

\* NewLogger with Level INFO and no sampler, for the given choices of
\* BufferSize > 0, hooks and ErrorOutput.
LInit ==
    /\ lbuffered \in BOOLEAN
    /\ lhooks \in BOOLEAN
    /\ lerrOut \in BOOLEAN
    /\ llevelMask = LevelMask(INFO)
    /\ lrate = 0
    /\ lcount = 0
    /\ lmu = 0
    /\ lpc = [g \in BCallers |-> "idle"]
    /\ llevel = [g \in BCallers |-> INFO]
    /\ lid = [g \in BCallers |-> 0]
    /\ lcalls = << >>
    /\ lerrSink = << >>
    /\ lerrs = 0
    /\ lonFatal = {}
    /\ lexit = "none"
    /\ lexitId = 0

\* No Logger is instantiated.
LOff ==
    /\ lbuffered = FALSE
    /\ lhooks = FALSE
    /\ lerrOut = FALSE
    /\ llevelMask = {}
    /\ lrate = 0
    /\ lcount = 0
    /\ lmu = 0
    /\ lpc = [g \in BCallers |-> "idle"]
    /\ llevel = [g \in BCallers |-> INFO]
    /\ lid = [g \in BCallers |-> 0]
    /\ lcalls = << >>
    /\ lerrSink = << >>
    /\ lerrs = 0
    /\ lonFatal = {}
    /\ lexit = "none"
    /\ lexitId = 0

\* The goroutine that made call id.
LOwner(id) == lcalls[id][1]

\* A public log method (Info, Fatal, ...): take an entry from the pool,
\* set its level and message, call logEntry.
LCall(g, lvl) ==
    /\ Running
    /\ lpc[g] = "idle"
    /\ Len(lcalls) < MaxLogCalls
    /\ lcalls' = Append(lcalls, <<g, lvl>>)
    /\ lid' = [lid EXCEPT ![g] = Len(lcalls) + 1]
    /\ llevel' = [llevel EXCEPT ![g] = lvl]
    /\ lpc' = [lpc EXCEPT ![g] = "filter"]
    /\ UNCHANGED <<lbuffered, lhooks, lerrOut, llevelMask, lrate, lcount, lmu,
                   lerrSink, lerrs, lonFatal, lexit, lexitId>>
    /\ UNCHANGED bvars
    /\ UNCHANGED lothers

\* logEntry, the level check and the sampling check: a rejected entry goes
\* back to the pool and the call returns.  SamplingLogger.shouldLog counts
\* the call and passes it when the count is a multiple of the rate.
LFilter(g) ==
    /\ Running
    /\ lpc[g] = "filter"
    /\ IF ~shouldLog(llevel[g])
         THEN /\ lpc' = [lpc EXCEPT ![g] = "idle"]
              /\ lcount' = lcount
         ELSE /\ lcount' = IF lrate > 0 THEN lcount + 1 ELSE lcount
              /\ lpc' = [lpc EXCEPT ![g] =
                           IF lrate > 0 /\ (lcount + 1) % lrate # 0
                             THEN "idle"
                             ELSE (IF lhooks THEN "hook_lock" ELSE "format")]
    /\ UNCHANGED <<lbuffered, lhooks, lerrOut, llevelMask, lrate, lmu, llevel,
                   lid, lcalls, lerrSink, lerrs, lonFatal, lexit, lexitId>>
    /\ UNCHANGED bvars
    /\ UNCHANGED lothers

\* l.mu.Lock() before the hooks run.
LHookLock(g) ==
    /\ Running
    /\ lpc[g] = "hook_lock"
    /\ lmu = 0
    /\ lmu' = g
    /\ lpc' = [lpc EXCEPT ![g] = "hooks"]
    /\ UNCHANGED <<lbuffered, lhooks, lerrOut, llevelMask, lrate, lcount,
                   llevel, lid, lcalls, lerrSink, lerrs, lonFatal, lexit,
                   lexitId>>
    /\ UNCHANGED bvars
    /\ UNCHANGED lothers

\* The hooks run, then l.mu.Unlock().
LHooks(g) ==
    /\ Running
    /\ lpc[g] = "hooks"
    /\ lmu' = 0
    /\ lpc' = [lpc EXCEPT ![g] = "format"]
    /\ UNCHANGED <<lbuffered, lhooks, lerrOut, llevelMask, lrate, lcount,
                   llevel, lid, lcalls, lerrSink, lerrs, lonFatal, lexit,
                   lexitId>>
    /\ UNCHANGED bvars
    /\ UNCHANGED lothers

\* l.formatter.Format(entry): on an error the error handler is called, the
\* entry goes back to the pool and the call returns.
LFormat(g) ==
    /\ Running
    /\ lpc[g] = "format"
    /\ \E fault \in BOOLEAN :
         /\ fault => bfaults < MaxSinkFaults
         /\ bfaults' = IF fault THEN bfaults + 1 ELSE bfaults
         /\ lerrs' = IF fault THEN lerrs + 1 ELSE lerrs
         /\ lpc' = [lpc EXCEPT ![g] = IF fault THEN "idle" ELSE "write"]
    /\ UNCHANGED <<lbuffered, lhooks, lerrOut, llevelMask, lrate, lcount, lmu,
                   llevel, lid, lcalls, lerrSink, lonFatal, lexit, lexitId>>
    /\ UNCHANGED <<bbuf, bdone, bpc, bslice, bbatch, bfinal, bres, bok, bsink,
                   bsinkClosed, btotal, bdropped, bflushes, bcl, bmark>>
    /\ UNCHANGED <<bcap, btimerArmed, bsnap>>
    /\ UNCHANGED lothers

\* The write: l.buffer.Write(output) when the logger is buffered, else the
\* entry of writer.Write(output), writer being l.errOut for a level >= ERROR
\* when it is set and l.out otherwise.
LWrite(g) ==
    /\ Running
    /\ lpc[g] = "write"
    /\ IF lbuffered
         THEN /\ BWriteSelect(g, lid[g])
              /\ lpc' = [lpc EXCEPT ![g] = "bufwrite"]
              /\ UNCHANGED <<bsink, bfaults, lerrSink>>
         ELSE /\ \E fault \in BOOLEAN :
                   /\ fault => bfaults < MaxSinkFaults
                   /\ bfaults' = IF fault THEN bfaults + 1 ELSE bfaults
                   /\ bres' = [bres EXCEPT ![g] = IF fault THEN "err" ELSE "ok"]
                   /\ IF fault
                        THEN UNCHANGED <<bsink, lerrSink>>
                        ELSE IF llevel[g] >= ERROR /\ lerrOut
                               THEN /\ lerrSink' = Append(lerrSink, <<lid[g]>>)
                                    /\ bsink' = bsink
                               ELSE /\ bsink' = Append(bsink, <<lid[g]>>)
                                    /\ lerrSink' = lerrSink
              /\ lpc' = [lpc EXCEPT ![g] = "direct_in"]
              /\ UNCHANGED <<bbuf, bpc, bslice, bok, btotal, bdropped>>
    /\ UNCHANGED <<lbuffered, lhooks, lerrOut, llevelMask, lrate, lcount, lmu,
                   llevel, lid, lcalls, lerrs, lonFatal, lexit, lexitId>>
    /\ UNCHANGED <<bdone, bbatch, bfinal, bsinkClosed, bflushes, bcl, bmark>>
    /\ UNCHANGED <<bcap, btimerArmed, bsnap>>
    /\ UNCHANGED lothers

\* The write has returned: a write error goes to the error handler; then
\* the FATAL and PANIC handling, or the return of the entry to the pool.
LWriteReturn(g) ==
    /\ Running
    /\ \/ lpc[g] = "bufwrite" /\ bpc[g] = "idle"
       \/ lpc[g] = "direct_in"
    /\ lerrs' = IF bres[g] = "err" THEN lerrs + 1 ELSE lerrs
    /\ lpc' = [lpc EXCEPT ![g] =
                 IF llevel[g] = FATAL THEN "fatal"
                 ELSE IF llevel[g] = PANIC THEN "panic" ELSE "put"]
    /\ UNCHANGED <<lbuffered, lhooks, lerrOut, llevelMask, lrate, lcount, lmu,
                   llevel, lid, lcalls, lerrSink, lonFatal, lexit, lexitId>>
    /\ UNCHANGED bvars
    /\ UNCHANGED lothers

\* entry.Level == FATAL: l.onFatal(entry), then l.exitFunc(1).
LFatal(g) ==
    /\ Running
    /\ lpc[g] = "fatal"
    /\ lonFatal' = lonFatal \cup {lid[g]}
    /\ lexit' = "exit"
    /\ lexitId' = lid[g]
    /\ UNCHANGED <<lbuffered, lhooks, lerrOut, llevelMask, lrate, lcount, lmu,
                   lpc, llevel, lid, lcalls, lerrSink, lerrs>>
    /\ UNCHANGED bvars
    /\ UNCHANGED lothers

\* entry.Level == PANIC: l.onPanic(entry), the entry goes back to the pool,
\* panic(msg).
LPanic(g) ==
    /\ Running
    /\ lpc[g] = "panic"
    /\ lexit' = "panic"
    /\ lexitId' = lid[g]
    /\ UNCHANGED <<lbuffered, lhooks, lerrOut, llevelMask, lrate, lcount, lmu,
                   lpc, llevel, lid, lcalls, lerrSink, lerrs, lonFatal>>
    /\ UNCHANGED bvars
    /\ UNCHANGED lothers

\* putEntryToPool(entry), then l.buffer.Flush() when the logger is
\* buffered; else the call returns.
LPut(g) ==
    /\ Running
    /\ lpc[g] = "put"
    /\ IF lbuffered
         THEN /\ BFlushStart(g)
              /\ lpc' = [lpc EXCEPT ![g] = "flush"]
         ELSE /\ lpc' = [lpc EXCEPT ![g] = "idle"]
              /\ UNCHANGED <<bpc, bbatch, bsnap>>
    /\ UNCHANGED <<lbuffered, lhooks, lerrOut, llevelMask, lrate, lcount, lmu,
                   llevel, lid, lcalls, lerrSink, lerrs, lonFatal, lexit,
                   lexitId>>
    /\ UNCHANGED <<bbuf, bdone, bslice, bfinal, bres, bok, bsink, bsinkClosed,
                   bfaults, btotal, bdropped, bflushes, bcl, bmark>>
    /\ UNCHANGED <<bcap, btimerArmed>>
    /\ UNCHANGED lothers

\* l.buffer.Flush() has returned, and so does the call.
LFlushReturn(g) ==
    /\ Running
    /\ lpc[g] = "flush"
    /\ bpc[g] = "idle"
    /\ lpc' = [lpc EXCEPT ![g] = "idle"]
    /\ UNCHANGED <<lbuffered, lhooks, lerrOut, llevelMask, lrate, lcount, lmu,
                   llevel, lid, lcalls, lerrSink, lerrs, lonFatal, lexit,
                   lexitId>>
    /\ UNCHANGED bvars
    /\ UNCHANGED lothers

\* Goroutine g is in a log call whose entry, taken by getEntryFromPool in
\* the public method, has not been given back by putEntryToPool: logEntry
\* gives it back when it rejects the call, on a format error, before
\* panic(msg), and at its end.
LEntryOut(g) ==
    \/ lpc[g] \in {"filter", "hook_lock", "hooks", "format", "write",
                    "bufwrite", "direct_in", "fatal", "put"}
    \/ lpc[g] = "panic" /\ ~(lexit = "panic" /\ LOwner(lexitId) = g)

\* The call id writes to config.Output (through the BufferedWriter when the
\* logger is buffered), not to config.ErrorOutput.
LToOutput(id) == lbuffered \/ ~(lcalls[id][2] >= ERROR /\ lerrOut)

\* The goroutines inside l.buffer.Write / l.out.Write.
LInOutputWrite ==
    {g \in BCallers :
        \/ lpc[g] = "bufwrite" /\ bpc[g] # "idle"
        \/ lpc[g] = "direct_in" /\ LToOutput(lid[g])}

LNext ==
    \/ \E g \in BCallers, lvl \in LLevels : LCall(g, lvl)
    \/ \E g \in BCallers : LFilter(g)
    \/ \E g \in BCallers : LHookLock(g)
    \/ \E g \in BCallers : LHooks(g)
    \/ \E g \in BCallers : LFormat(g)
    \/ \E g \in BCallers : LWrite(g)
    \/ \E g \in BCallers : LWriteReturn(g)
    \/ \E g \in BCallers : LFatal(g)
    \/ \E g \in BCallers : LPanic(g)
    \/ \E g \in BCallers : LPut(g)
    \/ \E g \in BCallers : LFlushReturn(g)
    \/ BInner

-----------------------------------------------------------------------------
(***************************************************************************)
(* BufferedWriter of crystal.go.  Its flushWorker moves the queued slices  *)
(* one by one into a local batch and writes the batch on a tick, on the    *)
(* batch timer, when the batch is full, or when bw.done is closed.         *)
(***************************************************************************)
\* bw.batchSize, set by NewBufferedWriter.
batchSize == 100

\* NewBufferedWriter: an empty channel of capacity bufferSize, the worker
\* started.
CInit ==
    /\ cbuf = << >>
    /\ cdone = FALSE
    /\ cwpc = "select"
    /\ cwafter = "select"
    /\ cbatch = << >>
    /\ cpc = [g \in BCallers |-> "idle"]
    /\ cres = [g \in BCallers |-> "ok"]
    /\ csink = << >>
    /\ csinkClosed = FALSE
    /\ cfaults = 0
    /\ ctotal = 0
    /\ cdropped = 0
    /\ cqueued = {}
    /\ cbefore = {}
    /\ ccl = "idle"

\* No BufferedWriter of crystal.go is instantiated.
COff ==
    /\ cbuf = << >>
    /\ cdone = FALSE
    /\ cwpc = "exit"
    /\ cwafter = "exit"
    /\ cbatch = << >>
    /\ cpc = [g \in BCallers |-> "idle"]
    /\ cres = [g \in BCallers |-> "ok"]
    /\ csink = << >>
    /\ csinkClosed = FALSE
    /\ cfaults = 0
    /\ ctotal = 0
    /\ cdropped = 0
    /\ cqueued = {}
    /\ cbefore = {}
    /\ ccl = "idle"

\* The slices the sink has accepted.
CSinkSlices == {Flatten(csink)[i] : i \in 1..Len(Flatten(csink))}

\* Entry of bw.writer.Write(bytes): the sink accepts them, or rejects them
\* (it is closed, or a fault is injected).
CSinkAccepts(batch, fault) ==
    /\ fault => cfaults < MaxSinkFaults
    /\ cfaults' = IF fault THEN cfaults + 1 ELSE cfaults
    /\ csink' = IF fault \/ csinkClosed THEN csink ELSE Append(csink, batch)

\* bw.Write(p): count the call, copy p; send the copy on the channel if
\* there is room, else count a drop and write p to the sink directly.
CWrite(g) ==
    /\ cpc[g] = "idle"
    /\ ctotal < MaxCWrites
    /\ ctotal' = ctotal + 1
    /\ \/ /\ Len(cbuf) < BQueueCap
          /\ cbuf' = Append(cbuf, ctotal + 1)
          /\ cqueued' = cqueued \cup {ctotal + 1}
          /\ cres' = [cres EXCEPT ![g] = "ok"]
          /\ UNCHANGED <<cpc, csink, cfaults, cdropped>>
       \/ /\ ~(Len(cbuf) < BQueueCap)
          /\ cdropped' = cdropped + 1
          /\ \E fault \in BOOLEAN :
               /\ CSinkAccepts(<<ctotal + 1>>, fault)
               /\ cres' = [cres EXCEPT ![g] =
                             IF fault \/ csinkClosed THEN "err" ELSE "ok"]
          /\ cpc' = [cpc EXCEPT ![g] = "direct_in"]
          /\ UNCHANGED <<cbuf, cqueued>>
    /\ UNCHANGED <<cdone, cwpc, cwafter, cbatch, csinkClosed, cbefore, ccl>>
    /\ UNCHANGED cothers

\* The direct write of bw.Write returns, and so does bw.Write.
CDirectEnd(g) ==
    /\ cpc[g] = "direct_in"
    /\ cpc' = [cpc EXCEPT ![g] = "idle"]
    /\ UNCHANGED <<cbuf, cdone, cwpc, cwafter, cbatch, cres, csink,
                   csinkClosed, cfaults, ctotal, cdropped, cqueued, cbefore,
                   ccl>>
    /\ UNCHANGED cothers

\* flushWorker calls bw.flushBatch(batch) and goes to after: an empty batch
\* returns at once, else the combined bytes enter the sink's Write (the
\* error it returns is dropped).
CFlushBatch(after) ==
    IF cbatch = << >>
      THEN /\ cwpc' = after
           /\ UNCHANGED <<cwafter, csink, cfaults>>
      ELSE /\ \E fault \in BOOLEAN : CSinkAccepts(cbatch, fault)
           /\ cwpc' = "flush_in"
           /\ cwafter' = after

\* flushWorker, case <-bw.done: flush the local batch and return.
CWorkerDone ==
    /\ cwpc = "select"
    /\ cdone
    /\ CFlushBatch("exit")
    /\ UNCHANGED <<cbuf, cdone, cbatch, cpc, cres, csinkClosed, ctotal,
                   cdropped, cqueued, cbefore, ccl>>
    /\ UNCHANGED cothers

\* flushWorker, case <-ticker.C and case <-batchTimer.C: flush the local
\* batch (the timer case only when it is not empty) and empty it.
CWorkerTimer ==
    /\ cwpc = "select"
    /\ CFlushBatch("select")
    /\ UNCHANGED <<cbuf, cdone, cbatch, cpc, cres, csinkClosed, ctotal,
                   cdropped, cqueued, cbefore, ccl>>
    /\ UNCHANGED cothers

\* flushWorker, case data := <-bw.buffer: append the slice to the local
\* batch, and flush the batch when it has reached batchSize.
CWorkerData ==
    /\ cwpc = "select"
    /\ cbuf # << >>
    /\ cbuf' = Tail(cbuf)
    /\ cbatch' = Append(cbatch, Head(cbuf))
    /\ IF Len(cbatch) + 1 >= batchSize
         THEN /\ \E fault \in BOOLEAN :
                   CSinkAccepts(Append(cbatch, Head(cbuf)), fault)
              /\ cwpc' = "flush_in"
              /\ cwafter' = "select"
         ELSE UNCHANGED <<cwpc, cwafter, csink, cfaults>>
    /\ UNCHANGED <<cdone, cpc, cres, csinkClosed, ctotal, cdropped, cqueued,
                   cbefore, ccl>>
    /\ UNCHANGED cothers

\* The sink's Write called by flushBatch returns: batch = batch[:0] in the
\* loop, or the return of flushWorker after the done case.
CFlushEnd ==
    /\ cwpc = "flush_in"
    /\ cwpc' = cwafter
    /\ cbatch' = IF cwafter = "select" THEN << >> ELSE cbatch
    /\ UNCHANGED <<cbuf, cdone, cwafter, cpc, cres, csink, csinkClosed,
                   cfaults, ctotal, cdropped, cqueued, cbefore, ccl>>
    /\ UNCHANGED cothers

\* Close(), first statement: close(bw.done).
CCloseSignal ==
    /\ ccl = "idle"
    /\ cdone' = TRUE
    /\ cbefore' = cqueued
    /\ ccl' = "waiting"
    /\ UNCHANGED <<cbuf, cwpc, cwafter, cbatch, cpc, cres, csink, csinkClosed,
                   cfaults, ctotal, cdropped, cqueued>>
    /\ UNCHANGED cothers

\* Close(), the rest: bw.wg.Wait() returns once flushWorker has returned;
\* bw.flushBatch(nil) returns at once, its batch being empty; the sink is
\* closed; Close() returns.
CCloseWait ==
    /\ ccl = "waiting"
    /\ cwpc = "exit"
    /\ csinkClosed' = TRUE
    /\ ccl' = "returned"
    /\ UNCHANGED <<cbuf, cdone, cwpc, cwafter, cbatch, cpc, cres, csink,
                   cfaults, ctotal, cdropped, cqueued, cbefore>>
    /\ UNCHANGED cothers

CNext ==
    \/ \E g \in BCallers : CWrite(g)
    \/ \E g \in BCallers : CDirectEnd(g)
    \/ CWorkerDone
    \/ CWorkerTimer
    \/ CWorkerData
    \/ CFlushEnd
    \/ CCloseSignal
    \/ CCloseWait

-----------------------------------------------------------------------------
(***************************************************************************)
(* Logger of crystal.go: the method log, run by the calling goroutine.     *)
(* A call is a frame [pc, level, locked]; the slow-log detection calls     *)
(* l.log again, which puts a frame on top of the caller's.                 *)
(***************************************************************************)
\* The levels the callers of the model log at.
KLevels == {INFO, ERROR, FATAL, PANIC}

\* NewLogger, for config.Level INFO or ERROR and either DisableLocking.
KInit ==
    /\ kdisableLocking \in BOOLEAN
    /\ klevelMask \in {LevelMask(INFO), LevelMask(ERROR)}
    /\ kmu = 0
    /\ kstack = [g \in BCallers |-> << >>]
    /\ kcalls = 0
    /\ kslow = 0
    /\ ksink = << >>
    /\ kfaults = 0
    /\ kerrs = 0
    /\ kexit = "none"

\* No Logger of crystal.go is instantiated.
KOff ==
    /\ kdisableLocking = FALSE
    /\ klevelMask = {}
    /\ kmu = 0
    /\ kstack = [g \in BCallers |-> << >>]
    /\ kcalls = 0
    /\ kslow = 0
    /\ ksink = << >>
    /\ kfaults = 0
    /\ kerrs = 0
    /\ kexit = "none"

\* The process has not been ended by the Logger.
KRunning == kexit = "none"

\* The innermost call of goroutine g.
KTop(g) == kstack[g][Len(kstack[g])]

\* Goroutine g is at position pc of its innermost call.
KAt(g, pc) == kstack[g] # << >> /\ KTop(g).pc = pc

\* The stack of g with its innermost call at position pc.
KGoto(g, pc) ==
    [kstack EXCEPT ![g] = [@ EXCEPT ![Len(@)] = [@ EXCEPT !.pc = pc]]]

\* The stack of g after its innermost call has returned.
KPop(g) == [kstack EXCEPT ![g] = SubSeq(@, 1, Len(@) - 1)]

\* l.mu after the deferred functions of the innermost call of g have run:
\* l.mu.Unlock() if the call had locked it.
KDeferred(g) == IF KTop(g).locked THEN 0 ELSE kmu

\* A public log method (Info, Error, Fatal, ...) calls l.log.
KCall(g, lvl) ==
    /\ KRunning
    /\ kstack[g] = << >>
    /\ kcalls < MaxKCalls
    /\ kcalls' = kcalls + 1
    /\ kstack' = [kstack EXCEPT ![g] =
                    <<[pc |-> "filter", level |-> lvl, locked |-> FALSE]>>]
    /\ UNCHANGED <<kdisableLocking, klevelMask, kmu, kslow, ksink, kfaults,
                   kerrs, kexit>>
    /\ UNCHANGED kothers

\* l.log, the level check: the call returns if the bit of the level is not
\* set in l.levelMask (there is no sampler); else the entry is filled, the
\* hooks run, and the call comes to the conditional locking.
KFilter(g) ==
    /\ KRunning
    /\ KAt(g, "filter")
    /\ kstack' = IF KTop(g).level \notin klevelMask
                   THEN KPop(g)
                   ELSE KGoto(g, IF kdisableLocking THEN "format" ELSE "lock")
    /\ UNCHANGED <<kdisableLocking, klevelMask, kmu, kcalls, kslow, ksink,
                   kfaults, kerrs, kexit>>
    /\ UNCHANGED kothers

\* l.mu.Lock(); defer l.mu.Unlock().
KLock(g) ==
    /\ KRunning
    /\ KAt(g, "lock")
    /\ kmu = 0
    /\ kmu' = g
    /\ kstack' = [kstack EXCEPT ![g] =
                    [@ EXCEPT ![Len(@)] =
                       [@ EXCEPT !.pc = "format", !.locked = TRUE]]]
    /\ UNCHANGED <<kdisableLocking, klevelMask, kcalls, kslow, ksink, kfaults,
                   kerrs, kexit>>
    /\ UNCHANGED kothers

\* l.formatter.Format(entry): on an error the error handler is called and
\* the call returns.
KFormat(g) ==
    /\ KRunning
    /\ KAt(g, "format")
    /\ \E fault \in BOOLEAN :
         /\ fault => kfaults < MaxSinkFaults
         /\ kfaults' = IF fault THEN kfaults + 1 ELSE kfaults
         /\ kerrs' = IF fault THEN kerrs + 1 ELSE kerrs
         /\ kstack' = IF fault THEN KPop(g) ELSE KGoto(g, "write")
         /\ kmu' = IF fault THEN KDeferred(g) ELSE kmu
    /\ UNCHANGED <<kdisableLocking, klevelMask, kcalls, kslow, ksink, kexit>>
    /\ UNCHANGED kothers

\* l.out.Write(formatted): on an error the error handler is called; then
\* the statistics and the metrics are updated.
KWrite(g) ==
    /\ KRunning
    /\ KAt(g, "write")
    /\ \E fault \in BOOLEAN :
         /\ fault => kfaults < MaxSinkFaults
         /\ kfaults' = IF fault THEN kfaults + 1 ELSE kfaults
         /\ kerrs' = IF fault THEN kerrs + 1 ELSE kerrs
         /\ ksink' = IF fault THEN ksink ELSE Append(ksink, KTop(g).level)
    /\ kstack' = KGoto(g, "after")
    /\ UNCHANGED <<kdisableLocking, klevelMask, kmu, kcalls, kslow, kexit>>
    /\ UNCHANGED kothers

\* After the write: FATAL calls l.exitFunc(1), PANIC panics; else the
\* slow-log detection: a call that lasted more than 100 ms calls
\* l.log(WARN, "Slow logging operation", ...), the others return.
KAfter(g) ==
    /\ KRunning
    /\ KAt(g, "after")
    /\ IF KTop(g).level = FATAL
         THEN /\ kexit' = "exit"
              /\ UNCHANGED <<kstack, kmu, kslow>>
         ELSE IF KTop(g).level = PANIC
                THEN /\ kexit' = "panic"
                     /\ UNCHANGED <<kstack, kmu, kslow>>
                ELSE /\ kexit' = kexit
                     /\ \E slow \in BOOLEAN :
                          /\ slow => kslow < MaxSlow
                          /\ kslow' = IF slow THEN kslow + 1 ELSE kslow
                          /\ kstack' =
                               IF slow
                                 THEN [KGoto(g, "slow_call") EXCEPT ![g] =
                                         Append(@, [pc |-> "filter",
                                                    level |-> WARN,
                                                    locked |-> FALSE])]
                                 ELSE KPop(g)
                          /\ kmu' = IF slow THEN kmu ELSE KDeferred(g)
    /\ UNCHANGED <<kdisableLocking, klevelMask, kcalls, ksink, kfaults, kerrs>>
    /\ UNCHANGED kothers

\* The nested l.log(WARN, ...) has returned, and so does the call.
KSlowReturn(g) ==
    /\ KRunning
    /\ KAt(g, "slow_call")
    /\ kmu' = KDeferred(g)
    /\ kstack' = KPop(g)
    /\ UNCHANGED <<kdisableLocking, klevelMask, kcalls, kslow, ksink, kfaults,
                   kerrs, kexit>>
    /\ UNCHANGED kothers

KNext ==
    \/ \E g \in BCallers, lvl \in KLevels : KCall(g, lvl)
    \/ \E g \in BCallers : KFilter(g)
    \/ \E g \in BCallers : KLock(g)
    \/ \E g \in BCallers : KFormat(g)
    \/ \E g \in BCallers : KWrite(g)
    \/ \E g \in BCallers : KAfter(g)
    \/ \E g \in BCallers : KSlowReturn(g)

-----------------------------------------------------------------------------
(***************************************************************************)
(* One call of a public log method of core.Logger (Info, InfoContext, ...) *)
(* followed through the method, the async queue when AsyncLogging is set,  *)
(* and logEntry: what happens to the LogEntry and its fixed buffers.       *)
(***************************************************************************)
\* len(entry.Message) and len(entry.Hostname).
MessageCap == 1024
HostnameCap == 256
\* len("... [truncated]") as logEntry takes it.
MarkerLen == 14

\* len("... [truncated]"), the marker logEntry copies.
TruncationMarkerLen == 15

\* The inputs of the call: message lengths, MaxMessageSize, hostname lengths.
EMsgLens == {0, 5, 1024, 1025, 3000}
EMaxSizes == {0, 3, 1024, 2000}
EHostLens == {0, 9, 256, 257}
ELevels == {DEBUG, INFO}

\* min of two numbers: what copy(dst, src) copies.
Min(a, b) == IF a < b THEN a ELSE b

EInit ==
    /\ emsg \in EMsgLens
    /\ emax \in EMaxSizes
    /\ ehost \in EHostLens
    /\ elevel \in ELevels
    /\ emin \in ELevels
    /\ easync \in BOOLEAN
    /\ ectx \in BOOLEAN
    /\ epc = "call"
    /\ eacquired = FALSE
    /\ ecopied = FALSE
    /\ eMessageLen = 0
    /\ eHostnameLen = 0
    /\ ejobctx = FALSE
    /\ efields = FALSE
    /\ eout = << >>
    /\ efault = "none"
    /\ emarker = 0

\* No such call is followed.
EOff ==
    /\ emsg = 0
    /\ emax = 0
    /\ ehost = 0
    /\ elevel = INFO
    /\ emin = INFO
    /\ easync = FALSE
    /\ ectx = FALSE
    /\ epc = "returned"
    /\ eacquired = FALSE
    /\ ecopied = FALSE
    /\ eMessageLen = 0
    /\ eHostnameLen = 0
    /\ ejobctx = FALSE
    /\ efields = FALSE
    /\ eout = << >>
    /\ efault = "none"
    /\ emarker = 0

\* Logger.Info / Logger.InfoContext: take an entry from the pool, set its
\* level, copy msg into entry.Message, set MessageLen to len(msg); then
\* l.asyncLogger.LogEntry(entry), whose job carries no ctx, or
\* l.logEntry(entry, ctx).
EInfo ==
    /\ epc = "call"
    /\ eacquired' = TRUE
    /\ ecopied' = TRUE
    /\ eMessageLen' = emsg
    /\ ejobctx' = IF easync THEN FALSE ELSE ectx
    /\ epc' = IF easync THEN "queued" ELSE "filter"
    /\ UNCHANGED <<emsg, emax, ehost, elevel, emin, easync, ectx,
                   eHostnameLen, efields, eout, efault>>
    /\ UNCHANGED emarker
    /\ UNCHANGED eothers

\* AsyncLogger.worker receives the job: logEntry(job.entry, job.ctx).
EWorker ==
    /\ epc = "queued"
    /\ epc' = "filter"
    /\ UNCHANGED <<emsg, emax, ehost, elevel, emin, easync, ectx, eacquired,
                   ecopied, eMessageLen, eHostnameLen, ejobctx, efields, eout,
                   efault>>
    /\ UNCHANGED emarker
    /\ UNCHANGED eothers

\* logEntry, the level check: a rejected entry goes back to the pool.
EFilter ==
    /\ epc = "filter"
    /\ epc' = IF elevel \in LevelMask(emin) THEN "truncate" ELSE "returned"
    /\ UNCHANGED <<emsg, emax, ehost, elevel, emin, easync, ectx, eacquired,
                   ecopied, eMessageLen, eHostnameLen, ejobctx, efields, eout,
                   efault>>
    /\ UNCHANGED emarker
    /\ UNCHANGED eothers

\* logEntry, the message size check: the marker is copied at
\* entry.Message[MaxMessageSize:], a slice expression that panics when
\* MaxMessageSize exceeds the capacity, and copy writes as much of the
\* marker as the array has room for; MessageLen becomes
\* MaxMessageSize + 14, capped at the capacity.
ETruncate ==
    /\ epc = "truncate"
    /\ IF emax > 0 /\ eMessageLen > emax
         THEN IF emax > MessageCap
                THEN /\ efault' = "slice bounds out of range"
                     /\ epc' = "crashed"
                     /\ UNCHANGED <<eMessageLen, emarker>>
                ELSE /\ emarker' = Min(TruncationMarkerLen, MessageCap - emax)
                     /\ eMessageLen' = Min(emax + MarkerLen, MessageCap)
                     /\ epc' = "meta"
                     /\ UNCHANGED efault
         ELSE /\ epc' = "meta"
              /\ UNCHANGED <<eMessageLen, efault, emarker>>
    /\ UNCHANGED <<emsg, emax, ehost, elevel, emin, easync, ectx, eacquired,
                   ecopied, eHostnameLen, ejobctx, efields, eout>>
    /\ UNCHANGED eothers

\* logEntry, the static metadata: the hostname is copied into
\* entry.Hostname and HostnameLen set to its length.
EMeta ==
    /\ epc = "meta"
    /\ eHostnameLen' = IF ehost > 0 THEN ehost ELSE eHostnameLen
    /\ epc' = "context"
    /\ UNCHANGED <<emsg, emax, ehost, elevel, emin, easync, ectx, eacquired,
                   ecopied, eMessageLen, ejobctx, efields, eout, efault>>
    /\ UNCHANGED emarker
    /\ UNCHANGED eothers

\* logEntry, the context: the extractor fields and trace_id, user_id,
\* request_id, ... are copied into the entry when ctx is not nil.
EContext ==
    /\ epc = "context"
    /\ efields' = ejobctx
    /\ epc' = "format"
    /\ UNCHANGED <<emsg, emax, ehost, elevel, emin, easync, ectx, eacquired,
                   ecopied, eMessageLen, eHostnameLen, ejobctx, eout, efault>>
    /\ UNCHANGED emarker
    /\ UNCHANGED eothers

\* logEntry, format and write: the formatter reads the entry through
\* GetMessage (entry.Message[:MessageLen]) and GetHostname
\* (entry.Hostname[:HostnameLen]), which panic when the length exceeds the
\* capacity.  Of the message written, the bytes from MaxMessageSize on are
\* the bytes of the marker that lie below MessageLen.
EFormat ==
    /\ epc = "format"
    /\ IF eMessageLen > MessageCap \/ eHostnameLen > HostnameCap
         THEN /\ efault' = "slice bounds out of range"
              /\ epc' = "crashed"
              /\ UNCHANGED eout
         ELSE /\ eout' = <<[len |-> eMessageLen, ctx |-> efields,
                          marker |-> IF emarker = 0 THEN 0
                                     ELSE Min(emarker,
                                              eMessageLen - emax)]>>
              /\ epc' = "returned"
              /\ UNCHANGED efault
    /\ UNCHANGED <<emsg, emax, ehost, elevel, emin, easync, ectx, eacquired,
                   ecopied, eMessageLen, eHostnameLen, ejobctx, efields>>
    /\ UNCHANGED emarker
    /\ UNCHANGED eothers

ENext ==
    \/ EInfo
    \/ EWorker
    \/ EFilter
    \/ ETruncate
    \/ EMeta
    \/ EContext
    \/ EFormat

-----------------------------------------------------------------------------
(***************************************************************************)
(* RotatingFileWriter, the files: rotate, compressFile and cleanupBackups  *)
(* of internal/rotation and of crystal.go, over the backup files of the    *)
(* log directory.  rotate of internal/rotation is entered with r.mu free:  *)
(* called from Write it never gets past its own r.mu.Lock().  A file name  *)
(* is [slot, nano, gz]: the time formatted by the pattern, the nanosecond  *)
(* suffix (0: none), and whether it ends in ".gz".                         *)
(***************************************************************************)
\* len(buf) of the buffers of r.bufferPool: make([]byte, 0, 64*1024).
PoolBufLen == 0

FPatterns == {"default", "logstyle", "other"}

\* NewRotatingFileWriter, for a configuration; no backup on disk yet.
FInit ==
    /\ fvariant \in {"internal", "crystal"}
    /\ fcompress \in BOOLEAN
    /\ fpattern \in FPatterns
    /\ fmaxBackups \in 0..MaxBackupsCfg
    /\ fdir = << >>
    /\ fslot = 0
    /\ fnano = 0
    /\ fclock = 0
    /\ frot = 0
    /\ fjobs = {}
    /\ fcleanups = 0
    /\ fcrashed = FALSE
    /\ ffaults = 0
    /\ foverwrote = FALSE
    /\ flost = FALSE
    /\ ffailed = FALSE
    /\ fcleaned = FALSE
    /\ fdue = {}
    /\ fattempted = {}

\* No RotatingFileWriter is followed at the level of its files.
FOff ==
    /\ fvariant = "internal"
    /\ fcompress = FALSE
    /\ fpattern = "default"
    /\ fmaxBackups = 0
    /\ fdir = << >>
    /\ fslot = 0
    /\ fnano = 0
    /\ fclock = 0
    /\ frot = 0
    /\ fjobs = {}
    /\ fcleanups = 0
    /\ fcrashed = FALSE
    /\ ffaults = 0
    /\ foverwrote = FALSE
    /\ flost = FALSE
    /\ ffailed = FALSE
    /\ fcleaned = FALSE
    /\ fdue = {}
    /\ fattempted = {}

\* The directory dir with file nm created, replaced or truncated.
FPut(dir, nm, data, mtime) ==
    [n \in DOMAIN dir \cup {nm} |->
        IF n = nm THEN [data |-> data, mtime |-> mtime] ELSE dir[n]]

\* The directory dir without the files of gone.
FRemove(dir, gone) == [n \in DOMAIN dir \ gone |-> dir[n]]

\* time.Format(r.pattern) of the time now.  The default pattern of
\* crystal.go, "log.%Y%m%d.%H%M%S.log", has no element of a Go layout: it
\* formats every time to itself.
FFormat(now) ==
    [slot |-> IF fvariant = "crystal" /\ fpattern = "default" THEN 0
              ELSE now,
     nano |-> 0, gz |-> FALSE]

\* The name rotate of internal/rotation gives the backup: the formatted
\* time, with "_<UnixNano>" before the extension if that file exists.
FBackupName(now) ==
    IF FFormat(now) \in DOMAIN fdir
      THEN [FFormat(now) EXCEPT !.nano = fnano + 1]
      ELSE FFormat(now)

\* The files filepath.Glob("log.*.log*") returns: the default names and the
\* custom names of that form, compressed or not.
FGlob(dir) == IF fpattern = "other" THEN {} ELSE DOMAIN dir

\* The order of the names as strings: sort.Strings.
FNameBefore(a, b) ==
    \/ a.slot < b.slot
    \/ a.slot = b.slot /\ a.nano < b.nano
    \/ a.slot = b.slot /\ a.nano = b.nano /\ ~a.gz /\ b.gz

\* rotate of internal/rotation: close the file, rename it to the backup
\* name, create the file again, reset the size; start the compression
\* goroutine if Compress is set and the cleanup goroutine if MaxBackups > 0.
FRotateInternal(now) ==
    /\ fnano' = fnano + 1
    /\ fclock' = fclock + 1
    /\ foverwrote' = (foverwrote \/ FBackupName(now) \in DOMAIN fdir)
    /\ fdir' = FPut(fdir, FBackupName(now), frot + 1, fclock + 1)
    /\ fjobs' = IF fcompress
                  THEN fjobs \cup {[id |-> frot + 1, src |-> FBackupName(now),
                                    at |-> "open", data |-> 0]}
                  ELSE fjobs
    /\ fcleanups' = IF fmaxBackups > 0 THEN fcleanups + 1 ELSE fcleanups
    /\ fcleaned' = FALSE
    /\ fdue' = {}
    /\ fattempted' = {}
    /\ UNCHANGED <<fcrashed, ffaults, flost, ffailed>>

\* cleanupBackups of crystal.go: the files of the glob, sorted by name; the
\* first len(files) - maxBackups of them are to be deleted.
FCrystalDue(dir) ==
    {f \in FGlob(dir) :
        Cardinality({g \in FGlob(dir) : FNameBefore(g, f)})
          < Cardinality(FGlob(dir)) - fmaxBackups}

\* cleanupBackups of crystal.go returns at the first Remove that fails: it
\* calls Remove for the files up to that one.
FCrystalAttempted(due, failing) ==
    {f \in due : ~\E g \in failing : FNameBefore(g, f)}

\* compressFile of crystal.go with a buffer of non-zero length: the copy
\* does not panic.
FCrystalOutcomes_FilledBuffer ==
    IF ~fcompress THEN {"renamed"}
    ELSE {"open_err", "copy_err", "close_err", "ok"}

\* What compressFile of crystal.go, called by rotate, can come to: the
\* source cannot be opened or the destination created; io.CopyBuffer
\* panics, its buffer being empty, or else fails, or succeeds, the source
\* is removed and the deferred gzWriter.Close() fails or succeeds.
FCrystalOutcomes ==
    IF ~fcompress THEN {"renamed"}
    ELSE {"open_err"} \cup (IF PoolBufLen = 0 THEN {"panic"}
                            ELSE {"copy_err", "close_err", "ok"})

\* rotate of crystal.go: close the file; compress it into the backup name
\* plus ".gz" if Compress is set, else rename it to the backup name; open
\* the file again, reset the size, run cleanupBackups if MaxBackups > 0.
\* An error of compressFile is returned at once.
FRotateCrystal(now) ==
    \E out \in FCrystalOutcomes :
      LET nm == [FFormat(now) EXCEPT !.gz = fcompress]
          mid == IF out = "open_err" THEN fdir
                 ELSE FPut(fdir, nm,
                           IF out \in {"renamed", "ok"} THEN frot + 1 ELSE 0,
                           fclock + 1)
          goeson == out \in {"renamed", "close_err", "ok"}
                      /\ fmaxBackups > 0
          nfault == IF out \in {"open_err", "copy_err", "close_err"}
                      THEN 1 ELSE 0
      IN  \E failing \in SUBSET (IF goeson THEN FCrystalDue(mid) ELSE {}) :
            /\ ffaults + nfault + Cardinality(failing) <= MaxFsFaults
            /\ ffaults' = ffaults + nfault + Cardinality(failing)
            /\ fclock' = fclock + 1
            /\ foverwrote' = (foverwrote
                                \/ (out # "open_err" /\ nm \in DOMAIN fdir))
            /\ flost' = (flost \/ out = "close_err")
            /\ ffailed' = (ffailed \/ out \notin {"renamed", "ok"})
            /\ fcrashed' = (out = "panic")
            /\ IF goeson
                 THEN /\ fdue' = FCrystalDue(mid)
                      /\ fattempted' =
                           FCrystalAttempted(FCrystalDue(mid), failing)
                      /\ fdir' = FRemove(mid,
                                   FCrystalAttempted(FCrystalDue(mid), failing)
                                     \ failing)
                      /\ fcleaned' = TRUE
                 ELSE /\ fdir' = mid
                      /\ fcleaned' = FALSE
                      /\ UNCHANGED <<fdue, fattempted>>
            /\ UNCHANGED <<fnano, fjobs, fcleanups>>

\* Write finds a rotation due and calls rotate, at a time not before that
\* of the rotation before.
FRotate ==
    /\ ~fcrashed
    /\ frot < MaxRotations
    /\ frot' = frot + 1
    /\ \E now \in fslot..MaxSlot :
         /\ fslot' = now
         /\ IF fvariant = "internal" THEN FRotateInternal(now)
                                     ELSE FRotateCrystal(now)
    /\ UNCHANGED <<fvariant, fcompress, fpattern, fmaxBackups>>
    /\ UNCHANGED fothers

\* compressFile of internal/rotation, up to the copy: it returns nil if the
\* source is gone; it opens the source and creates (truncates) the
\* destination, the source name plus ".gz", or returns the error.
FCompressOpen(j) ==
    /\ ~fcrashed
    /\ j \in fjobs
    /\ j.at = "open"
    /\ IF j.src \notin DOMAIN fdir
         THEN /\ fjobs' = fjobs \ {j}
              /\ UNCHANGED <<fdir, ffaults, foverwrote, ffailed>>
         ELSE \E fault \in BOOLEAN :
                /\ fault => ffaults < MaxFsFaults
                /\ ffaults' = IF fault THEN ffaults + 1 ELSE ffaults
                /\ ffailed' = (ffailed \/ fault)
                /\ IF fault
                     THEN /\ fjobs' = fjobs \ {j}
                          /\ UNCHANGED <<fdir, foverwrote>>
                     ELSE /\ fjobs' = (fjobs \ {j}) \cup
                                 {[j EXCEPT !.at = "copy",
                                            !.data = fdir[j.src].data]}
                          /\ fdir' = FPut(fdir, [j.src EXCEPT !.gz = TRUE], 0,
                                          fclock)
                          /\ foverwrote' =
                               (foverwrote
                                  \/ [j.src EXCEPT !.gz = TRUE] \in DOMAIN fdir)
    /\ UNCHANGED <<fvariant, fcompress, fpattern, fmaxBackups, fslot, fnano,
                   fclock, frot, fcleanups, fcrashed, flost, fcleaned, fdue,
                   fattempted>>
    /\ UNCHANGED fothers

\* compressFile of internal/rotation, from the copy: io.CopyBuffer panics,
\* its buffer being empty (the deferred calls close the files and leave the
\* destination, and the process ends with its goroutines); else the copy or
\* gzWriter.Close() fails and the deferred
\* function removes the destination, or both succeed and the source is
\* removed.
FCompressCopy(j) ==
    /\ ~fcrashed
    /\ j \in fjobs
    /\ j.at = "copy"
    /\ IF PoolBufLen = 0
         THEN /\ fcrashed' = TRUE
              /\ ffailed' = TRUE
              /\ fjobs' = {}
              /\ fcleanups' = 0
              /\ UNCHANGED <<fdir, ffaults>>
         ELSE \E fault \in BOOLEAN :
                /\ fault => ffaults < MaxFsFaults
                /\ ffaults' = IF fault THEN ffaults + 1 ELSE ffaults
                /\ ffailed' = (ffailed \/ fault)
                /\ fdir' = IF fault
                             THEN FRemove(fdir, {[j.src EXCEPT !.gz = TRUE]})
                             ELSE FRemove(
                                    FPut(fdir, [j.src EXCEPT !.gz = TRUE],
                                         j.data, fclock),
                                    {j.src})
                /\ fjobs' = fjobs \ {j}
                /\ UNCHANGED <<fcrashed, fcleanups>>
    /\ UNCHANGED <<fvariant, fcompress, fpattern, fmaxBackups, fslot, fnano,
                   fclock, frot, foverwrote, flost, fcleaned, fdue,
                   fattempted>>
    /\ UNCHANGED fothers

\* The files cleanupBackups of internal/rotation has to delete: of the
\* files of the glob that end in ".log", the len - maxBackups oldest by
\* modification time.
FInternalDue ==
    LET logFiles == {n \in FGlob(fdir) : ~n.gz}
    IN  {f \in logFiles :
           Cardinality({g \in logFiles : fdir[g].mtime < fdir[f].mtime})
             < Cardinality(logFiles) - fmaxBackups}

\* cleanupBackups of internal/rotation, run by its goroutine under r.mu: a
\* Remove that fails is skipped.
FCleanup ==
    /\ ~fcrashed
    /\ fcleanups > 0
    /\ fcleanups' = fcleanups - 1
    /\ \E failing \in SUBSET FInternalDue :
         /\ ffaults + Cardinality(failing) <= MaxFsFaults
         /\ ffaults' = ffaults + Cardinality(failing)
         /\ fdir' = FRemove(fdir, FInternalDue \ failing)
    /\ fdue' = FInternalDue
    /\ fattempted' = FInternalDue
    /\ fcleaned' = TRUE
    /\ UNCHANGED <<fvariant, fcompress, fpattern, fmaxBackups, fslot, fnano,
                   fclock, frot, fjobs, fcrashed, foverwrote, flost, ffailed>>
    /\ UNCHANGED fothers

FNext ==
    \/ FRotate
    \/ \E j \in fjobs : FCompressOpen(j)
    \/ \E j \in fjobs : FCompressCopy(j)
    \/ FCleanup

-----------------------------------------------------------------------------
(***************************************************************************)
(* core.Logger called from one goroutine, synchronous and unbuffered:      *)
(* NewLogger, SetLevel, and logEntry as far as the level filter and the    *)
(* sampling gate decide whether the call is written.                       *)
(***************************************************************************)
\* The values of a Level (uint8) the model passes to NewLogger and
\* SetLevel: the 8 levels and one value above them.
SMinLevels == TRACE..(PANIC + 1)

\* A gate that passes the first call of every rate calls.
SamplerPasses_First(count, rate) == count % rate = 1

\* SamplingLogger.shouldLog, once the count is incremented: the call passes
\* when the count is a multiple of the rate.
SamplerPasses(count, rate) == count % rate = 0

\* NewLogger: the mask of config.Level; a sampler if EnableSampling is set
\* and SamplingRate > 1.
SInit ==
    /\ srate \in {0} \cup 2..MaxRate
    /\ smin \in SMinLevels
    /\ smask = LevelMask(smin)
    /\ scount = 0
    /\ ssampleCount = 0
    /\ scalls = 0
    /\ sgate = 0
    /\ slevelok = 0
    /\ spass = {}
    /\ semit = {}
    /\ slast = [level |-> TRACE, min |-> TRACE, written |-> FALSE,
               sets |-> 0]
    /\ ssets = 0
    /\ sended = FALSE

\* No such Logger is followed.
SOff ==
    /\ srate = 0
    /\ smin = TRACE
    /\ smask = {}
    /\ scount = 0
    /\ ssampleCount = 0
    /\ scalls = 0
    /\ sgate = 0
    /\ slevelok = 0
    /\ spass = {}
    /\ semit = {}
    /\ slast = [level |-> TRACE, min |-> TRACE, written |-> FALSE,
               sets |-> 0]
    /\ ssets = 0
    /\ sended = FALSE

\* Logger.SetLevel: the mask is cleared and the bits of the levels from
\* level to 7 are set.
SSetLevel ==
    /\ ~sended
    /\ ssets < MaxSetLevels
    /\ ssets' = ssets + 1
    /\ \E level \in SMinLevels :
         /\ smin' = level
         /\ smask' = LevelMask(level)
    /\ UNCHANGED <<srate, scount, ssampleCount, scalls, sgate, slevelok, spass,
                   semit, slast, sended>>
    /\ UNCHANGED sothers

\* logEntry with the sampling gate before the level filter: the count
\* advances for every call.
SLog_GateFirst ==
    /\ ~sended
    /\ scalls < MaxSCalls
    /\ scalls' = scalls + 1
    /\ \E level \in Levels :
         LET gated == srate > 0
             pass == ~gated \/ SamplerPasses(scount + 1, srate)
             ok == level \in smask
         IN  /\ scount' = IF gated THEN scount + 1 ELSE scount
             /\ sgate' = IF gated THEN sgate + 1 ELSE sgate
             /\ ssampleCount' = IF gated /\ pass THEN ssampleCount + 1
                                 ELSE ssampleCount
             /\ spass' = IF gated /\ pass THEN spass \cup {sgate + 1}
                          ELSE spass
             /\ slevelok' = IF ok THEN slevelok + 1 ELSE slevelok
             /\ semit' = IF ok /\ pass THEN semit \cup {slevelok + 1}
                          ELSE semit
             /\ slast' = [level |-> level, min |-> smin,
                          written |-> ok /\ pass, sets |-> ssets]
             /\ sended' = (ok /\ pass /\ level \in {FATAL, PANIC})
    /\ UNCHANGED <<srate, smask, smin, ssets>>
    /\ UNCHANGED sothers

\* A public log method and logEntry: the level filter, then the sampling
\* gate if there is a sampler, then format and write; exitFunc (os.Exit)
\* after a FATAL entry is written, panic after a PANIC entry.
SLog ==
    /\ ~sended
    /\ scalls < MaxSCalls
    /\ scalls' = scalls + 1
    /\ \E level \in Levels :
         IF level \notin smask
           THEN /\ slast' = [level |-> level, min |-> smin, written |-> FALSE,
                            sets |-> ssets]
                /\ UNCHANGED <<scount, ssampleCount, sgate, slevelok, spass,
                               semit, sended>>
           ELSE /\ slevelok' = slevelok + 1
                /\ IF srate = 0
                     THEN /\ semit' = semit \cup {slevelok + 1}
                          /\ slast' = [level |-> level, min |-> smin,
                                       written |-> TRUE, sets |-> ssets]
                          /\ sended' = (level \in {FATAL, PANIC})
                          /\ UNCHANGED <<scount, ssampleCount, sgate, spass>>
                     ELSE /\ scount' = scount + 1
                          /\ sgate' = sgate + 1
                          /\ IF SamplerPasses(scount + 1, srate)
                               THEN /\ ssampleCount' = ssampleCount + 1
                                    /\ spass' = spass \cup {sgate + 1}
                                    /\ semit' = semit \cup {slevelok + 1}
                                    /\ slast' = [level |-> level,
                                                 min |-> smin,
                                                 written |-> TRUE,
                                                 sets |-> ssets]
                                    /\ sended' = (level \in {FATAL, PANIC})
                               ELSE /\ slast' = [level |-> level,
                                                 min |-> smin,
                                                 written |-> FALSE,
                                                 sets |-> ssets]
                                    /\ UNCHANGED <<ssampleCount, spass, semit,
                                                   sended>>
    /\ UNCHANGED <<srate, smask, smin, ssets>>
    /\ UNCHANGED sothers

SNext ==
    \/ SSetLevel
    \/ SLog

-----------------------------------------------------------------------------
(***************************************************************************)
(* SamplingLogger of package sampling (ShouldLog) and of crystal.go        *)
(* (shouldLog), called from one goroutine.                                 *)
(***************************************************************************)
\* The rates NewSamplingLogger is given: negative, 0, 1 and above.
QRates == (0 - 1)..MaxRate

\* NewSamplingLogger(rate).
QInit ==
    /\ qvariant \in {"sampling", "crystal"}
    /\ qrate \in QRates
    /\ qcounter = 0
    /\ qcalls = 0
    /\ qresult = FALSE

\* No such SamplingLogger is followed.
QOff ==
    /\ qvariant = "sampling"
    /\ qrate = 1
    /\ qcounter = 0
    /\ qcalls = 0
    /\ qresult = FALSE

\* ShouldLog of package sampling: false for a rate <= 0, true for rate 1,
\* else the counter is incremented and the call passes when it is a
\* multiple of the rate.  The result and the counter after the call.
SamplingShouldLog(rate, counter) ==
    IF rate <= 0 THEN [result |-> FALSE, counter |-> counter]
    ELSE IF rate = 1 THEN [result |-> TRUE, counter |-> counter]
    ELSE [result |-> (counter + 1) % rate = 0, counter |-> counter + 1]

\* shouldLog of crystal.go: true for a rate <= 1, else as above.
CrystalShouldLog(rate, counter) ==
    IF rate <= 1 THEN [result |-> TRUE, counter |-> counter]
    ELSE [result |-> (counter + 1) % rate = 0, counter |-> counter + 1]

\* One call of ShouldLog.
QShouldLog ==
    /\ qcalls < MaxQCalls
    /\ qcalls' = qcalls + 1
    /\ LET r == IF qvariant = "sampling"
                  THEN SamplingShouldLog(qrate, qcounter)
                  ELSE CrystalShouldLog(qrate, qcounter)
       IN  /\ qresult' = r.result
           /\ qcounter' = r.counter
    /\ UNCHANGED <<qvariant, qrate>>
    /\ UNCHANGED qothers

QNext ==
    \/ QShouldLog

-----------------------------------------------------------------------------
(***************************************************************************)
(* core.LogEntry and the entry pool (internal/core/entry.go): goroutines   *)
(* acquire an entry, populate it and release it; and the Set...Field       *)
(* methods called on one held entry.  A stored field is identified by the  *)
(* method that stored it; its key and value bytes are not followed.        *)
(***************************************************************************)
\* MAX_PREALLOCATED_FIELDS, MAX_PREALLOCATED_TAGS and len(CustomMetrics).
FieldsCap == 16
TagsCap == 8
MetricsCap == 8

PGoroutines == 1..NPoolUsers
PEntries == 1..MaxEntries

\* The Set...Field methods: SetField, SetStringField, SetIntField,
\* SetFloat64Field, SetBoolField.
PKinds == {"any", "string", "int", "float64", "bool"}

\* LogEntry{}: every counter 0 and every slot of Fields empty.
ZeroEntry ==
    [MessageLen |-> 0, FieldsCount |-> 0,
     Fields |-> [i \in 0..(FieldsCap - 1) |-> "none"],
     TagsCount |-> 0, MetricsCount |-> 0, TraceIDLen |-> 0]

\* The used-length counters of an entry are all 0.
PCountersZero(e) ==
    /\ e.MessageLen = 0
    /\ e.FieldsCount = 0
    /\ e.TagsCount = 0
    /\ e.MetricsCount = 0
    /\ e.TraceIDLen = 0

\* No slot of Fields holds data.
PNoFieldData(e) == \A i \in DOMAIN e.Fields : e.Fields[i] = "none"

PReset_CountersOnly(e) ==
    [e EXCEPT !.MessageLen = 0, !.FieldsCount = 0, !.TagsCount = 0,
              !.MetricsCount = 0, !.TraceIDLen = 0]

\* *entry = LogEntry{} in getEntryFromPool.
PReset(e) == ZeroEntry

HasRoom_Inclusive(e) == ~(e.FieldsCount > FieldsCap)

\* The guard of every Set...Field method: e.FieldsCount >= len(e.Fields)
\* returns at once.
HasRoom(e) == ~(e.FieldsCount >= FieldsCap)

\* The body of a Set...Field method: the slot at index FieldsCount is
\* written and FieldsCount incremented.  An index outside the array panics
\* (POutOfRange) and stores nothing.
PStore(e, kind) ==
    IF e.FieldsCount \in DOMAIN e.Fields
    THEN [e EXCEPT !.Fields[e.FieldsCount] = kind, !.FieldsCount = @ + 1]
    ELSE e

POutOfRange(e) == HasRoom(e) /\ e.FieldsCount \notin DOMAIN e.Fields

SetField(e) == IF HasRoom(e) THEN PStore(e, "any") ELSE e
SetStringField(e) == IF HasRoom(e) THEN PStore(e, "string") ELSE e
SetIntField(e) == IF HasRoom(e) THEN PStore(e, "int") ELSE e
SetFloat64Field(e) == IF HasRoom(e) THEN PStore(e, "float64") ELSE e
SetBoolField(e) == IF HasRoom(e) THEN PStore(e, "bool") ELSE e

\* The method addFieldsToEntry picks for a value of the given kind.
PSetKind(e, kind) ==
    CASE kind = "string" -> SetStringField(e)
      [] kind = "int" -> SetIntField(e)
      [] kind = "float64" -> SetFloat64Field(e)
      [] kind = "bool" -> SetBoolField(e)
      [] OTHER -> SetField(e)

\* addFieldsToEntry with n key-value pairs whose values are of one kind.
RECURSIVE AddFieldsToEntry(_, _, _)
AddFieldsToEntry(e, kind, n) ==
    IF n = 0 THEN e ELSE AddFieldsToEntry(PSetKind(e, kind), kind, n - 1)

\* SetTag and SetMetric: dropped when the array is full.
SetTag(e) ==
    IF e.TagsCount >= TagsCap THEN e ELSE [e EXCEPT !.TagsCount = @ + 1]

SetMetric(e) ==
    IF e.MetricsCount >= MetricsCap THEN e
    ELSE [e EXCEPT !.MetricsCount = @ + 1]

RECURSIVE PRepeatTag(_, _)
PRepeatTag(e, n) == IF n = 0 THEN e ELSE PRepeatTag(SetTag(e), n - 1)

RECURSIVE PRepeatMetric(_, _)
PRepeatMetric(e, n) == IF n = 0 THEN e ELSE PRepeatMetric(SetMetric(e), n - 1)

\* The program starts: nothing is allocated, the pool is empty.
PInit ==
    /\ pents = [e \in PEntries |-> ZeroEntry]
    /\ ppool = {}
    /\ phold = [g \in PGoroutines |-> 0]
    /\ ppc = [g \in PGoroutines |-> "idle"]
    /\ pgets = 0
    /\ plast = [e \in PEntries |-> 0]
    /\ pcalls = 0
    /\ pkind = "none"
    /\ pswitches = 0
    /\ pfault = FALSE

\* The entry pool is not followed.
POff ==
    /\ pents = [e \in PEntries |-> ZeroEntry]
    /\ ppool = {}
    /\ phold = [g \in PGoroutines |-> 0]
    /\ ppc = [g \in PGoroutines |-> "idle"]
    /\ pgets = 0
    /\ plast = [e \in PEntries |-> 0]
    /\ pcalls = 0
    /\ pkind = "none"
    /\ pswitches = 0
    /\ pfault = FALSE

\* Goroutine 1 has acquired entry 1 and is about to set its fields.
PInitFields ==
    /\ pents = [e \in PEntries |-> ZeroEntry]
    /\ ppool = {}
    /\ phold = [g \in PGoroutines |-> IF g = 1 THEN 1 ELSE 0]
    /\ ppc = [g \in PGoroutines |-> IF g = 1 THEN "fresh" ELSE "idle"]
    /\ pgets = 1
    /\ plast = [e \in PEntries |-> 0]
    /\ pcalls = 0
    /\ pkind = "none"
    /\ pswitches = 0
    /\ pfault = FALSE

\* The entries neither pooled nor held: not allocated yet.
PUnallocated ==
    {e \in PEntries : e \notin ppool /\ \A g \in PGoroutines : phold[g] # e}

\* What entryPool.Get may return: any pooled entry, or the entry New
\* allocates.
PGettable ==
    ppool \cup (IF PUnallocated = {} THEN {}
                ELSE {CHOOSE e \in PUnallocated :
                         \A o \in PUnallocated : e <= o})

\* getEntryFromPool: Get, then the reset.
GetEntryFromPool(g) ==
    /\ ppc[g] = "idle"
    /\ pgets < MaxGets
    /\ \E e \in PGettable :
         /\ pents' = [pents EXCEPT ![e] = PReset(pents[e])]
         /\ ppool' = ppool \ {e}
         /\ phold' = [phold EXCEPT ![g] = e]
    /\ ppc' = [ppc EXCEPT ![g] = "fresh"]
    /\ pgets' = pgets + 1
    /\ UNCHANGED <<plast, pcalls, pkind, pswitches, pfault>>
    /\ UNCHANGED pothers

\* One use of the entry: the message, the key-value pairs, tags, metrics
\* and the trace id of the context are stored in it.
PPopulate(g) ==
    /\ ppc[g] = "fresh"
    /\ \E m \in 0..MaxPop, n \in 0..MaxPopFields, k \in PKinds,
          t \in 0..MaxPop, c \in 0..MaxPop, tr \in 0..MaxPop :
         LET e0 == pents[phold[g]]
             e1 == [e0 EXCEPT !.MessageLen = m]
             e2 == AddFieldsToEntry(e1, k, n)
             e3 == PRepeatTag(e2, t)
             e4 == PRepeatMetric(e3, c)
             e5 == [e4 EXCEPT !.TraceIDLen = tr]
         IN  pents' = [pents EXCEPT ![phold[g]] = e5]
    /\ ppc' = [ppc EXCEPT ![g] = "used"]
    /\ UNCHANGED <<ppool, phold, pgets, plast, pcalls, pkind, pswitches,
                   pfault>>
    /\ UNCHANGED pothers

\* putEntryToPool: the entry goes back as it is.
PutEntryToPool(g) ==
    /\ ppc[g] \in {"fresh", "used"}
    /\ ppool' = ppool \cup {phold[g]}
    /\ plast' = [plast EXCEPT ![phold[g]] =
                    IF pents[phold[g]] # ZeroEntry THEN g ELSE 0]
    /\ phold' = [phold EXCEPT ![g] = 0]
    /\ ppc' = [ppc EXCEPT ![g] = "idle"]
    /\ UNCHANGED <<pents, pgets, pcalls, pkind, pswitches, pfault>>
    /\ UNCHANGED pothers

PNext ==
    \/ \E g \in PGoroutines : GetEntryFromPool(g)
    \/ \E g \in PGoroutines : PPopulate(g)
    \/ \E g \in PGoroutines : PutEntryToPool(g)

\* One call of a Set...Field method on the entry goroutine 1 holds.
PSetCall(kind) ==
    /\ pcalls < MaxSetCalls
    /\ pkind \in {"none", kind} \/ pswitches < MaxSwitches
    /\ pents' = [pents EXCEPT ![phold[1]] = PSetKind(@, kind)]
    /\ pfault' = (pfault \/ POutOfRange(pents[phold[1]]))
    /\ pcalls' = pcalls + 1
    /\ pkind' = kind
    /\ pswitches' = IF pkind \in {"none", kind} THEN pswitches
                    ELSE pswitches + 1
    /\ ppc' = [ppc EXCEPT ![1] = "used"]
    /\ UNCHANGED <<ppool, phold, pgets, plast>>
    /\ UNCHANGED pothers

PSetField == phold[1] # 0 /\ PSetCall("any")
PSetStringField == phold[1] # 0 /\ PSetCall("string")
PSetIntField == phold[1] # 0 /\ PSetCall("int")
PSetFloat64Field == phold[1] # 0 /\ PSetCall("float64")
PSetBoolField == phold[1] # 0 /\ PSetCall("bool")

FieldsNext ==
    \/ PSetField
    \/ PSetStringField
    \/ PSetIntField
    \/ PSetFloat64Field
    \/ PSetBoolField

-----------------------------------------------------------------------------
(***************************************************************************)
(* core.TextFormatter and core.JSONFormatter (json_formatter.go): one      *)
(* entry is given a message, fields and tags and is formatted once.  The   *)
(* formatter is the struct literal of the tests: every Show... option,     *)
(* EnableColors and EnableStackTrace are off.  Bytes are followed as runs  *)
(* [part, c, n, i]: n bytes of class c ("x" an ordinary byte, "LF", "CR",  *)
(* "BS" a backslash, "ESC_N" and "ESC_R" the two-byte escapes) that belong *)
(* to part ("frame", "msg", "key", "value", "mask", "null", "tag", "end")  *)
(* of field or tag number i.                                               *)
(***************************************************************************)
\* LOG_ENTRY_BUFFER_SIZE, len(FieldPair.Key), len(MaskString) of
\* NewTextFormatter.
BufferCap == 2048
KeyCap == 64
MaskLen == 3

TLevels == {INFO, NOTICE}

\* levelStrings.
LevelStrings ==
    <<<<"T", "R", "A", "C", "E">>, <<"D", "E", "B", "U", "G">>,
      <<"I", "N", "F", "O">>, <<"N", "O", "T", "I", "C", "E">>,
      <<"W", "A", "R", "N">>, <<"E", "R", "R", "O", "R">>,
      <<"F", "A", "T", "A", "L">>, <<"P", "A", "N", "I", "C">>>>

\* Level.String.
LevelString(l) ==
    IF l < Len(LevelStrings) THEN LevelStrings[l + 1]
    ELSE <<"U", "N", "K", "N", "O", "W", "N">>

UpperLetters ==
    <<"A", "B", "C", "D", "E", "F", "G", "H", "I", "J", "K", "L", "M", "N",
      "O", "P", "Q", "R", "S", "T", "U", "V", "W", "X", "Y", "Z">>
LowerLetters ==
    <<"a", "b", "c", "d", "e", "f", "g", "h", "i", "j", "k", "l", "m", "n",
      "o", "p", "q", "r", "s", "t", "u", "v", "w", "x", "y", "z">>

\* strings.ToLower and strings.Contains, on strings as tuples of characters.
ToLower(str) ==
    [j \in 1..Len(str) |->
        IF \E u \in 1..Len(UpperLetters) : UpperLetters[u] = str[j]
        THEN LowerLetters[CHOOSE u \in 1..Len(UpperLetters) :
                              UpperLetters[u] = str[j]]
        ELSE str[j]]

Contains(str, pat) ==
    \E j \in 1..(Len(str) - Len(pat) + 1) :
        SubSeq(str, j, j + Len(pat) - 1) = pat

\* The test of formatFields for a sensitive key.
IsSensitiveKey(key) ==
    \/ Contains(ToLower(key), <<"p", "a", "s", "s", "w", "o", "r", "d">>)
    \/ Contains(ToLower(key), <<"t", "o", "k", "e", "n">>)
    \/ Contains(ToLower(key), <<"s", "e", "c", "r", "e", "t">>)
    \/ Contains(ToLower(key), <<"k", "e", "y">>)

\* The field keys of the entry.
TKeys ==
    {<<"p", "a", "s", "s", "w", "o", "r", "d">>,
     <<"A", "P", "I", "_", "K", "E", "Y">>,
     <<"a", "u", "t", "h", "_", "T", "o", "k", "e", "n">>,
     <<"u", "s", "e", "r">>}

\* How a field was stored: by SetStringField, SetIntField, SetFloat64Field
\* or SetBoolField, or by SetField with a value of the given dynamic type.
TTyped == {"string", "int", "float64", "bool"}
TGeneric == {"any_string", "any_int", "any_float", "any_bool", "any_opaque"}
TKinds == TTyped \cup TGeneric

\* A value is ordinary bytes ("plain") or has a line feed in it ("lf");
\* numbers and booleans print as ordinary bytes.
TShapes(kind) ==
    IF kind \in {"string", "any_string", "any_opaque"} THEN {"plain", "lf"}
    ELSE {"plain"}

TFieldSet ==
    {[key |-> k, kind |-> d, shape |-> h] :
        k \in TKeys, d \in TKinds, h \in {"plain", "lf"}}

Run(part, c, n, i) == [part |-> part, c |-> c, n |-> n, i |-> i]

\* The bytes of a value or tag of the given shape.
TShapeRuns(part, shape, i) ==
    IF shape = "plain" THEN <<Run(part, "x", MaxValLen, i)>>
    ELSE <<Run(part, "x", 1, i), Run(part, "LF", 1, i), Run(part, "x", 1, i)>>

\* The messages: up to MaxRuns runs of ordinary bytes, line feeds or
\* carriage returns, of at most MessageCap bytes together.
TRunLens == {1, MessageCap - 1}
TMsgRuns == {Run("msg", c, n, 0) : c \in {"x", "LF", "CR"}, n \in TRunLens}

RECURSIVE RunsBytes(_)
Width(c) == IF c \in {"ESC_N", "ESC_R"} THEN 2 ELSE 1
RunsBytes(runs) ==
    IF runs = << >> THEN 0
    ELSE Head(runs).n * Width(Head(runs).c) + RunsBytes(Tail(runs))

TMessages ==
    {m \in UNION {[1..k -> TMsgRuns] : k \in 0..MaxRuns} :
        RunsBytes(m) <= MessageCap}

\* The first budget bytes of runs; a two-byte escape cut in the middle
\* leaves its backslash.
RECURSIVE TakeBytes(_, _)
TakeBytes(runs, budget) ==
    IF runs = << >> \/ budget = 0 THEN << >>
    ELSE LET r == Head(runs)
             w == Width(r.c)
         IN  IF r.n * w <= budget
             THEN <<r>> \o TakeBytes(Tail(runs), budget - r.n * w)
             ELSE (IF budget \div w > 0
                   THEN <<[r EXCEPT !.n = budget \div w]>> ELSE << >>)
                  \o (IF budget % w > 0
                      THEN <<[r EXCEPT !.c = "BS", !.n = 1]>> ELSE << >>)

\* ByteArray.Write, WriteString and WriteByte: what does not fit in the
\* fixed buffer is dropped without an error.
ByteArrayWrite(buf, p) == buf \o TakeBytes(p, BufferCap - RunsBytes(buf))

RECURSIVE WriteAll(_, _)
WriteAll(buf, pieces) ==
    IF pieces = << >> THEN buf
    ELSE WriteAll(ByteArrayWrite(buf, Head(pieces)), Tail(pieces))

\* strings.ReplaceAll(message, "\n", "\\n") and the same for "\r".
EscapeMessage(msg) ==
    [j \in 1..Len(msg) |->
        [msg[j] EXCEPT !.c = IF @ = "LF" THEN "ESC_N"
                             ELSE IF @ = "CR" THEN "ESC_R" ELSE @]]

\* The key as SetField stored it.
TKeyRuns(fld, i) ==
    <<Run("key", "x", IF Len(fld.key) > KeyCap THEN KeyCap ELSE Len(fld.key), i)>>

TMaskRuns(i) == <<Run("mask", "x", MaskLen, i)>>

\* formatFields, the value of one field: only a field stored by
\* SetStringField and a generic value of no basic type look at
\* MaskSensitiveData; a quote is escaped, a line feed is not.
TextValuePieces(mask, fld, i) ==
    LET quote == <<Run("frame", "x", 1, i)>>
        real == TShapeRuns("value", fld.shape, i)
        masked == IF mask /\ IsSensitiveKey(fld.key) THEN TMaskRuns(i)
                  ELSE real
    IN  CASE fld.kind = "string" -> <<quote, masked, quote>>
          [] fld.kind \in {"int", "float64", "bool"} -> <<real>>
          [] fld.kind = "any_string" -> <<quote, real, quote>>
          [] fld.kind \in {"any_int", "any_float", "any_bool"} -> <<real>>
          [] OTHER -> <<masked>>

\* formatFields: {key=value key=value}.
RECURSIVE TextFieldPieces(_, _, _)
TextFieldPieces(mask, fields, i) ==
    IF i > Len(fields) THEN << >>
    ELSE (IF i > 1 THEN <<<<Run("frame", "x", 1, 0)>>>> ELSE << >>)
         \o <<TKeyRuns(fields[i], i), <<Run("frame", "x", 1, 0)>>>>
         \o TextValuePieces(mask, fields[i], i)
         \o TextFieldPieces(mask, fields, i + 1)

FormatFields(mask, fields) ==
    <<<<Run("frame", "x", 1, 0)>>>>
    \o TextFieldPieces(mask, fields, 1)
    \o <<<<Run("frame", "x", 1, 0)>>>>

\* formatTags: [tag,tag].
RECURSIVE TextTagPieces(_, _)
TextTagPieces(tags, i) ==
    IF i > Len(tags) THEN << >>
    ELSE (IF i > 1 THEN <<<<Run("frame", "x", 1, 0)>>>> ELSE << >>)
         \o <<TShapeRuns("tag", tags[i], i)>>
         \o TextTagPieces(tags, i + 1)

FormatTags(tags) ==
    <<<<Run("frame", "x", 1, 0)>>>>
    \o TextTagPieces(tags, 1)
    \o <<<<Run("frame", "x", 1, 0)>>>>

\* TextFormatter.Format: [LEVEL] message {fields} [tags] and a line feed,
\* each piece one write to the pooled ByteArray.
TextFormat(mask, level, msg, fields, tags) ==
    WriteAll(<< >>,
        <<<<Run("frame", "x", 1, 0)>>,
          <<Run("frame", "x", Len(LevelString(level)), 0)>>,
          <<Run("frame", "x", 1, 0)>>,
          <<Run("frame", "x", 1, 0)>>,
          EscapeMessage(msg)>>
        \o (IF Len(fields) > 0
            THEN <<<<Run("frame", "x", 1, 0)>>>> \o FormatFields(mask, fields)
            ELSE << >>)
        \o (IF Len(tags) > 0
            THEN <<<<Run("frame", "x", 1, 0)>>>> \o FormatTags(tags)
            ELSE << >>)
        \o <<<<Run("end", "LF", 1, 0)>>>>)

\* JSONFormatter.Format, the value of one field: fieldMap[key] = fp.Value,
\* which is nil (null) for a field stored by a typed setter and the value
\* itself otherwise; encoding/json escapes a line feed in it.
\* MaskSensitiveData is not read.
JSONValuePieces(mask, fld, i) ==
    IF fld.kind \in TTyped THEN <<<<Run("null", "x", 4, i)>>>>
    ELSE <<EscapeMessage(TShapeRuns("value", fld.shape, i))>>

\* "key":value, with a comma between two members.
RECURSIVE JSONFieldPieces(_, _, _)
JSONFieldPieces(mask, fields, i) ==
    IF i > Len(fields) THEN << >>
    ELSE (IF i > 1 THEN <<<<Run("frame", "x", 1, 0)>>>> ELSE << >>)
         \o <<<<Run("frame", "x", 1, 0)>>, TKeyRuns(fields[i], i),
              <<Run("frame", "x", 2, 0)>>>>
         \o JSONValuePieces(mask, fields[i], i)
         \o JSONFieldPieces(mask, fields, i + 1)

RECURSIVE Flat(_)
Flat(pieces) ==
    IF pieces = << >> THEN << >> ELSE Head(pieces) \o Flat(Tail(pieces))

\* JSONFormatter.Format: the map is encoded with its keys sorted, so the
\* document is {"fields":{...},"level":"L","level_name":"L","message":"M",
\* and then the pid and the timestamp, whose lengths are not followed (one
\* run of at least the bytes of their names).  The encoder writes the
\* document to the pooled ByteArray in one call.
JSONFormat(mask, level, msg, fields, tags) ==
    LET lvl == Len(LevelString(level))
        doc == (IF Len(fields) > 0
                THEN <<Run("frame", "x", 11, 0)>>
                     \o Flat(JSONFieldPieces(mask, fields, 1))
                     \o <<Run("frame", "x", 11, 0)>>
                ELSE <<Run("frame", "x", 10, 0)>>)
               \o <<Run("frame", "x", lvl + 16 + lvl + 13, 0)>>
               \o EscapeMessage(msg)
               \o <<Run("frame", "x", 27, 0)>>
               \o <<Run("end", "LF", 1, 0)>>
    IN  ByteArrayWrite(<< >>, doc)

\* The entry before it is formatted: a message, no fields, no tags.
TInit ==
    /\ tkind \in {"text", "json"}
    /\ tmask \in BOOLEAN
    /\ tlevel \in TLevels
    /\ tmsg \in TMessages
    /\ tfields = << >>
    /\ ttags = << >>
    /\ tout = << >>
    /\ tdone = FALSE

\* No entry is formatted.
TOff ==
    /\ tkind = "text"
    /\ tmask = FALSE
    /\ tlevel = INFO
    /\ tmsg = << >>
    /\ tfields = << >>
    /\ ttags = << >>
    /\ tout = << >>
    /\ tdone = FALSE

\* A field is stored in the entry.
TAddField ==
    /\ ~tdone
    /\ Len(tfields) < MaxTFields
    /\ \E fld \in TFieldSet :
         /\ fld.shape \in TShapes(fld.kind)
         /\ tfields' = Append(tfields, fld)
    /\ UNCHANGED <<tkind, tmask, tlevel, tmsg, ttags, tout, tdone>>
    /\ UNCHANGED tothers

\* SetTag.
TAddTag ==
    /\ ~tdone
    /\ Len(ttags) < MaxTTags
    /\ \E shape \in {"plain", "lf"} : ttags' = Append(ttags, shape)
    /\ UNCHANGED <<tkind, tmask, tlevel, tmsg, tfields, tout, tdone>>
    /\ UNCHANGED tothers

\* f.Format(entry).
TFormat ==
    /\ ~tdone
    /\ tout' = IF tkind = "text"
               THEN TextFormat(tmask, tlevel, tmsg, tfields, ttags)
               ELSE JSONFormat(tmask, tlevel, tmsg, tfields, ttags)
    /\ tdone' = TRUE
    /\ UNCHANGED <<tkind, tmask, tlevel, tmsg, tfields, ttags>>
    /\ UNCHANGED tothers

TNext ==
    \/ TAddField
    \/ TAddTag
    \/ TFormat

\* The runs of the output that belong to one part.
TPart(out, part) == SelectSeq(out, LAMBDA r : r.part = part)

\* The bytes of class c in the output.
RECURSIVE TCount(_, _)
TCount(out, c) ==
    IF out = << >> THEN 0
    ELSE (IF Head(out).c = c THEN Head(out).n ELSE 0) + TCount(Tail(out), c)

-----------------------------------------------------------------------------
(***************************************************************************)
(* core.ParseLevel (level.go), called with strings as tuples of            *)
(* characters.                                                             *)
(***************************************************************************)
WarningString == <<"W", "A", "R", "N", "I", "N", "G">>

\* The strings given to ParseLevel: the eight level names, "WARNING", and
\* strings that name no level.
VStrings ==
    {LevelString(l) : l \in Levels}
    \cup {WarningString, << >>, <<"i", "n", "f", "o">>, <<"W", "A", "R">>,
          <<"I", "N", "F", "O", "S">>, <<"U", "N", "K", "N", "O", "W", "N">>,
          <<"I", "N", "V", "A", "L", "I", "D">>}

\* ParseLevel: a switch on the length of the string, then on the string.
\* "FATAL" and "PANIC" stand in the case for length 4, which a string of
\* five characters never enters.
ParseLevel(str) ==
    LET ok(l) == [level |-> l, err |-> FALSE]
        n == Len(str)
    IN  CASE n = 4 /\ str = LevelString(INFO) -> ok(INFO)
          [] n = 4 /\ str = LevelString(WARN) -> ok(WARN)
          [] n = 4 /\ str = LevelString(FATAL) -> ok(FATAL)
          [] n = 4 /\ str = LevelString(PANIC) -> ok(PANIC)
          [] n = 5 /\ str = LevelString(TRACE) -> ok(TRACE)
          [] n = 5 /\ str = LevelString(DEBUG) -> ok(DEBUG)
          [] n = 5 /\ str = LevelString(ERROR) -> ok(ERROR)
          [] n = 6 /\ str = LevelString(NOTICE) -> ok(NOTICE)
          [] n = 7 /\ str = WarningString -> ok(WARN)
          [] OTHER -> [level |-> INFO, err |-> TRUE]

VInit ==
    /\ vstr = << >>
    /\ vlevel = INFO
    /\ verr = FALSE
    /\ vcalls = 0

\* ParseLevel is not called.
VOff ==
    /\ vstr = << >>
    /\ vlevel = INFO
    /\ verr = FALSE
    /\ vcalls = 0

\* One call of ParseLevel.
VParseLevel ==
    /\ vcalls < MaxParseCalls
    /\ \E str \in VStrings :
         /\ vstr' = str
         /\ vlevel' = ParseLevel(str).level
         /\ verr' = ParseLevel(str).err
    /\ vcalls' = vcalls + 1
    /\ UNCHANGED vothers

VNext ==
    \/ VParseLevel

-----------------------------------------------------------------------------
(***************************************************************************)
(* crystal.go Logger with DisableLocking = false and async logging: one    *)
(* goroutine submits log calls, the workers of the AsyncLogger process     *)
(* them through Logger.log, another goroutine calls Logger.Close.          *)
(***************************************************************************)
DWorkers == 1..NDWorkers
DProcs == {0} \cup DWorkers

\* NewLogger with EnableAsync: the workers are started.
DInit ==
    /\ dq = << >>
    /\ ddone = FALSE
    /\ dmu = "free"
    /\ dpc = [p \in DProcs |-> IF p = 0 THEN "idle" ELSE "select"]
    /\ ddrain = [p \in DProcs |-> FALSE]
    /\ dcl = "idle"
    /\ dsub = 0
    /\ dwritten = 0

\* No such Logger is followed.
DOff ==
    /\ dq = << >>
    /\ ddone = FALSE
    /\ dmu = "free"
    /\ dpc = [p \in DProcs |-> IF p = 0 THEN "idle" ELSE "exit"]
    /\ ddrain = [p \in DProcs |-> FALSE]
    /\ dcl = "idle"
    /\ dsub = 0
    /\ dwritten = 0

\* AsyncLogger.log: send the job, or (default, channel full) log a warning
\* synchronously through Logger.log.
DSubmit ==
    /\ dpc[0] = "idle"
    /\ dsub < MaxDJobs
    /\ dsub' = dsub + 1
    /\ IF Len(dq) < DQueueCap
         THEN /\ dq' = Append(dq, dsub + 1)
              /\ dpc' = dpc
         ELSE /\ dpc' = [dpc EXCEPT ![0] = "lock"]
              /\ dq' = dq
    /\ UNCHANGED <<ddone, dmu, ddrain, dcl, dwritten>>
    /\ UNCHANGED dothers

\* The select of AsyncLogger.worker: done is closed, or a job is received.
DWorkerSelect(w) ==
    /\ dpc[w] = "select"
    /\ \/ /\ ddone
          /\ dpc' = [dpc EXCEPT ![w] = "drain"]
          /\ ddrain' = [ddrain EXCEPT ![w] = TRUE]
          /\ dq' = dq
       \/ /\ dq # << >>
          /\ dq' = Tail(dq)
          /\ dpc' = [dpc EXCEPT ![w] = "lock"]
          /\ ddrain' = ddrain
    /\ UNCHANGED <<ddone, dmu, dcl, dsub, dwritten>>
    /\ UNCHANGED dothers

\* The inner loop after done: receive a job, or (default) return.
DWorkerDrain(w) ==
    /\ dpc[w] = "drain"
    /\ IF dq # << >>
         THEN /\ dq' = Tail(dq)
              /\ dpc' = [dpc EXCEPT ![w] = "lock"]
         ELSE /\ dpc' = [dpc EXCEPT ![w] = "exit"]
              /\ dq' = dq
    /\ UNCHANGED <<ddone, dmu, ddrain, dcl, dsub, dwritten>>
    /\ UNCHANGED dothers

\* Logger.log: l.mu.Lock() before formatting.
DLogLock(p) ==
    /\ dpc[p] = "lock"
    /\ dmu = "free"
    /\ dmu' = "log"
    /\ dpc' = [dpc EXCEPT ![p] = "write"]
    /\ UNCHANGED <<dq, ddone, ddrain, dcl, dsub, dwritten>>
    /\ UNCHANGED dothers

\* Logger.log: format, write, and the deferred Unlock; the goroutine goes
\* back to where it called log from.
DLogWrite(p) ==
    /\ dpc[p] = "write"
    /\ dmu' = "free"
    /\ dwritten' = dwritten + 1
    /\ dpc' = [dpc EXCEPT ![p] = IF p = 0 THEN "idle"
                                 ELSE IF ddrain[p] THEN "drain"
                                 ELSE "select"]
    /\ UNCHANGED <<dq, ddone, ddrain, dcl, dsub>>
    /\ UNCHANGED dothers

\* Logger.Close: l.mu.Lock(), with the Unlock deferred to its return.
DCloseLock ==
    /\ dcl = "idle"
    /\ dmu = "free"
    /\ dmu' = "close"
    /\ dcl' = "locked"
    /\ UNCHANGED <<dq, ddone, dpc, ddrain, dsub, dwritten>>
    /\ UNCHANGED dothers

\* AsyncLogger.Close: close(al.done).
DCloseSignal ==
    /\ dcl = "locked"
    /\ ddone' = TRUE
    /\ dcl' = "waiting"
    /\ UNCHANGED <<dq, dmu, dpc, ddrain, dsub, dwritten>>
    /\ UNCHANGED dothers

\* al.wg.Wait() returns when every worker has returned; Close returns and
\* its deferred Unlock runs.
DCloseReturn ==
    /\ dcl = "waiting"
    /\ \A w \in DWorkers : dpc[w] = "exit"
    /\ dmu' = "free"
    /\ dcl' = "returned"
    /\ UNCHANGED <<dq, ddone, dpc, ddrain, dsub, dwritten>>
    /\ UNCHANGED dothers

\* The steps of the workers, of Logger.log and of Close.
DInner ==
    \/ \E w \in DWorkers : DWorkerSelect(w)
    \/ \E w \in DWorkers : DWorkerDrain(w)
    \/ \E p \in DProcs : DLogLock(p)
    \/ \E p \in DProcs : DLogWrite(p)
    \/ DCloseLock
    \/ DCloseSignal
    \/ DCloseReturn

DNext ==
    \/ DSubmit
    \/ DInner

-----------------------------------------------------------------------------
(***************************************************************************)
(* core.Logger: SetLevel on one goroutine, shouldLog (the first step of    *)
(* every log call) on others.  SetLevel holds l.mu; shouldLog reads        *)
(* l.levelMask without it.  The stores of SetLevel are unsynchronised      *)
(* with that read: a reader sees the field after any of the stores the     *)
(* build makes, each one of the loop or a single final one.                *)
(***************************************************************************)

\* NewLogger: the mask of config.Level.
MInit ==
    /\ mmin \in Levels
    /\ mmask = LevelMask(mmin)
    /\ mpc = "idle"
    /\ mlevel = mmin
    /\ mi = 0
    /\ mlast = [level |-> TRACE, mask |-> {}, old |-> TRACE, new |-> TRACE,
                ok |-> FALSE]
    /\ mcalls = 0
    /\ msets = 0

\* No such Logger is followed.
MOff ==
    /\ mmin = TRACE
    /\ mmask = {}
    /\ mpc = "idle"
    /\ mlevel = TRACE
    /\ mi = 0
    /\ mlast = [level |-> TRACE, mask |-> {}, old |-> TRACE, new |-> TRACE,
                ok |-> FALSE]
    /\ mcalls = 0
    /\ msets = 0

\* SetLevel(level): l.mu.Lock(); l.levelMask = 0; i := level.  When the
\* build keeps the mask in a register nothing is stored yet.
MSetLevelBegin ==
    /\ mpc = "idle"
    /\ msets < MaxMSets
    /\ msets' = msets + 1
    /\ \E level \in Levels :
         /\ mlevel' = level
         /\ mi' = level
    /\ \/ /\ mpc' = "loop"
          /\ mmask' = {}
       \/ /\ mpc' = "one"
          /\ mmask' = mmask
    /\ UNCHANGED <<mmin, mlast, mcalls>>
    /\ UNCHANGED mothers

\* One turn of the loop: l.levelMask |= levelMasks[i]; i++.
MSetLevelStore ==
    /\ mpc = "loop"
    /\ mi <= PANIC
    /\ mmask' = mmask \cup {mi}
    /\ mi' = mi + 1
    /\ UNCHANGED <<mmin, mpc, mlevel, mlast, mcalls, msets>>
    /\ UNCHANGED mothers

\* The loop is over (or the one store is made): the deferred Unlock.
MSetLevelEnd ==
    /\ \/ mpc = "loop" /\ mi > PANIC
       \/ mpc = "one"
    /\ mmask' = LevelMask(mlevel)
    /\ mmin' = mlevel
    /\ mpc' = "idle"
    /\ mi' = 0
    /\ UNCHANGED <<mlevel, mlast, mcalls, msets>>
    /\ UNCHANGED mothers

\* shouldLog(level) of a log call on another goroutine.
MShouldLog ==
    /\ mcalls < MaxMCalls
    /\ mcalls' = mcalls + 1
    /\ \E level \in Levels :
         mlast' = [level |-> level, mask |-> mmask, old |-> mmin,
                   new |-> mlevel, ok |-> level \in mmask]
    /\ UNCHANGED <<mmask, mmin, mpc, mlevel, mi, msets>>
    /\ UNCHANGED mothers

MNext ==
    \/ MSetLevelBegin
    \/ MSetLevelStore
    \/ MSetLevelEnd
    \/ MShouldLog

-----------------------------------------------------------------------------
(***************************************************************************)
(* RotatingFileWriter, the names: rotate and cleanupBackups of             *)
(* internal/rotation and of crystal.go over the files of the log directory *)
(* and of the working directory, the active file included, with Compress   *)
(* off.  A file is [dir, base]; a base name is a sequence of characters.   *)
(***************************************************************************)
\* The characters of the names, in the order of their codes.
XChars == <<"%", ".", "0", "1", "2", "3", "4", "5", "6", "7", "8", "9",
            "a", "g", "l", "o">>

XOrd(c) == CHOOSE i \in 1..Len(XChars) : XChars[i] = c

\* a < b as strings, the order of sort.Strings.
RECURSIVE XBefore(_, _)
XBefore(a, b) ==
    IF a = << >> THEN b # << >>
    ELSE IF b = << >> THEN FALSE
    ELSE IF Head(a) = Head(b) THEN XBefore(Tail(a), Tail(b))
    ELSE XOrd(Head(a)) < XOrd(Head(b))

XLogPrefix == <<"l", "o", "g", ".">>
XLogSuffix == <<".", "l", "o", "g">>

\* filepath.Match("log.*.log*", base).
XMatch(base) ==
    /\ Len(base) >= Len(XLogPrefix)
    /\ SubSeq(base, 1, Len(XLogPrefix)) = XLogPrefix
    /\ Contains(SubSeq(base, Len(XLogPrefix) + 1, Len(base)), XLogSuffix)

\* strings.HasSuffix(base, ".log").
XHasLogSuffix(base) ==
    /\ Len(base) >= Len(XLogSuffix)
    /\ SubSeq(base, Len(base) - Len(XLogSuffix) + 1, Len(base)) = XLogSuffix

\* The values of r.filename: "a.log", "log.a.log" and "log.0.log", in the
\* working directory or in a directory "logs".
XActiveBases ==
    {<<"a">> \o XLogSuffix,
     XLogPrefix \o <<"a">> \o XLogSuffix,
     XLogPrefix \o <<"0">> \o XLogSuffix}
XDirs == {"cwd", "logs"}

\* The backup of rotation n.  The patterns "log.2006-01-02T15-04-05.000.log"
\* and "log.<time>.log" format to "log." + the time + ".log", internal/
\* rotation joins the pattern to the directory of r.filename, crystal.go
\* uses it as it is, relative to the working directory, and its default
\* "log.%Y%m%d.%H%M%S.log" formats every time to itself.
XBackup(n) ==
    [dir  |-> IF xvariant = "internal" THEN xactive.dir ELSE "cwd",
     base |-> XLogPrefix
                \o (IF xvariant = "crystal" /\ xpattern = "default"
                      THEN <<"%">> ELSE <<XChars[XOrd("0") + n]>>)
                \o XLogSuffix]

\* filepath.Glob of cleanupBackups: "log.*.log*" in the directory of
\* r.filename (internal/rotation) or in the working directory (crystal.go).
XGlob(files) ==
    {f \in DOMAIN files :
        /\ f.dir = (IF xvariant = "internal" THEN xactive.dir ELSE "cwd")
        /\ XMatch(f.base)}

\* The sets of files one cleanupBackups run can remove.  internal/rotation:
\* of the files of the glob that end in ".log", the len - maxBackups first
\* in an order by modification time, files of equal time in any order.
\* crystal.go: the len - maxBackups first of the glob by name.
XRemovals(files) ==
    IF xvariant = "internal"
      THEN LET logFiles == {f \in XGlob(files) : XHasLogSuffix(f.base)}
               k == Cardinality(logFiles) - xmax
           IN  IF k <= 0 THEN {{}}
               ELSE {D \in SUBSET logFiles :
                        /\ Cardinality(D) = k
                        /\ \A f \in D, g \in logFiles \ D :
                              files[f] <= files[g]}
      ELSE LET all == XGlob(files)
               k == Cardinality(all) - xmax
           IN  {{f \in all :
                   Cardinality({g \in all : XBefore(g.base, f.base)}) < k}}

\* The files without those of gone.
XWithout(files, gone) == [f \in DOMAIN files \ gone |-> files[f]]

\* NewRotatingFileWriter: the active file is created; no other file.
XInit ==
    /\ xvariant \in {"internal", "crystal"}
    /\ xpattern \in {"default", "custom"}
    /\ xmax \in 0..MaxBackupsCfg
    /\ xactive \in [dir : XDirs, base : XActiveBases]
    /\ xfiles = [f \in {xactive} |-> 0]
    /\ xclock = 0
    /\ xrot = 0
    /\ xcleanups = 0
    /\ xremoved = {}
    /\ xbackups = {}

\* No RotatingFileWriter is followed at the level of its names.
XOff ==
    /\ xvariant = "internal"
    /\ xpattern = "default"
    /\ xmax = 0
    /\ xactive = [dir |-> "cwd", base |-> << >>]
    /\ xfiles = << >>
    /\ xclock = 0
    /\ xrot = 0
    /\ xcleanups = 0
    /\ xremoved = {}
    /\ xbackups = {}

\* A Write that finds no rotation due: r.file.Write(p) gives the active
\* file, if it is still on disk, the time of the clock.
XWrite ==
    /\ \E adv \in {0, 1} :
         /\ xclock + adv <= MaxXClock
         /\ xclock' = xclock + adv
         /\ xfiles' = IF xactive \in DOMAIN xfiles
                        THEN [xfiles EXCEPT ![xactive] = xclock + adv]
                        ELSE xfiles
    /\ UNCHANGED <<xvariant, xpattern, xmax, xactive, xrot, xcleanups,
                   xremoved, xbackups>>
    /\ UNCHANGED xothers

\* A Write that finds a rotation due: rotate renames the active file to
\* the backup name (an error when no file is there), creates the active
\* file again and, with maxBackups > 0, runs cleanupBackups (crystal.go)
\* or starts its goroutine (internal/rotation); then the file is written.
XRotate ==
    /\ xrot < MaxXRot
    /\ xrot' = xrot + 1
    /\ \E adv \in {0, 1} :
         /\ xclock + adv <= MaxXClock
         /\ xclock' = xclock + adv
         /\ IF xactive \notin DOMAIN xfiles
              THEN UNCHANGED <<xfiles, xcleanups, xremoved, xbackups>>
              ELSE LET b == XBackup(xrot + 1)
                       renamed == [f \in (DOMAIN xfiles \ {xactive}) \cup {b} |->
                                      IF f = b THEN xfiles[xactive]
                                      ELSE xfiles[f]]
                       created == [f \in DOMAIN renamed \cup {xactive} |->
                                      IF f = xactive THEN xclock + adv
                                      ELSE renamed[f]]
                   IN  /\ xbackups' = xbackups \cup {b}
                       /\ IF xmax > 0 /\ xvariant = "crystal"
                            THEN \E D \in XRemovals(created) :
                                   /\ xfiles' = XWithout(created, D)
                                   /\ xremoved' = xremoved \cup D
                                   /\ xcleanups' = xcleanups
                            ELSE /\ xfiles' = created
                                 /\ xremoved' = xremoved
                                 /\ xcleanups' =
                                      IF xmax > 0 THEN xcleanups + 1
                                      ELSE xcleanups
    /\ UNCHANGED <<xvariant, xpattern, xmax, xactive>>
    /\ UNCHANGED xothers

\* cleanupBackups of internal/rotation, run by its goroutine.
XCleanup ==
    /\ xcleanups > 0
    /\ xcleanups' = xcleanups - 1
    /\ \E D \in XRemovals(xfiles) :
         /\ xfiles' = XWithout(xfiles, D)
         /\ xremoved' = xremoved \cup D
    /\ UNCHANGED <<xvariant, xpattern, xmax, xactive, xclock, xrot, xbackups>>
    /\ UNCHANGED xothers

XNext ==
    \/ XWrite
    \/ XRotate
    \/ XCleanup

-----------------------------------------------------------------------------
(***************************************************************************)
(* The specifications: one component each, the others not instantiated.    *)
(***************************************************************************)
InitAsync ==
    AInit /\ ROff /\ BOff /\ LOff /\ COff /\ KOff /\ EOff /\ FOff /\ SOff
      /\ QOff /\ POff /\ TOff /\ VOff /\ DOff /\ MOff /\ XOff

SpecAsync == InitAsync /\ [][ANext]_vars

InitRot ==
    RInit /\ AOff /\ BOff /\ LOff /\ COff /\ KOff /\ EOff /\ FOff /\ SOff
      /\ QOff /\ POff /\ TOff /\ VOff /\ DOff /\ MOff /\ XOff

SpecRot == InitRot /\ [][RNext]_vars

InitBW ==
    BInit /\ AOff /\ ROff /\ LOff /\ COff /\ KOff /\ EOff /\ FOff /\ SOff
      /\ QOff /\ POff /\ TOff /\ VOff /\ DOff /\ MOff /\ XOff

SpecBW == InitBW /\ [][BNext]_vars

\* The BufferedWriter with callers that only Write and Close.
WriteCloseNext ==
    \/ \E g \in BCallers : BWrite(g)
    \/ BInner
    \/ BClose

SpecBWrite == InitBW /\ [][WriteCloseNext]_vars

\* NewLogger: the BufferedWriter exists when BufferSize > 0.
InitLog ==
    LInit /\ (IF lbuffered THEN BInit ELSE BOff) /\ AOff /\ ROff /\ COff
      /\ KOff /\ EOff /\ FOff /\ SOff /\ QOff /\ POff /\ TOff /\ VOff
      /\ DOff /\ MOff /\ XOff

SpecLog == InitLog /\ [][LNext]_vars

InitCBW ==
    CInit /\ AOff /\ ROff /\ BOff /\ LOff /\ KOff /\ EOff /\ FOff /\ SOff
      /\ QOff /\ POff /\ TOff /\ VOff /\ DOff /\ MOff /\ XOff

SpecCBW == InitCBW /\ [][CNext]_vars

InitCLog ==
    KInit /\ AOff /\ ROff /\ BOff /\ LOff /\ COff /\ EOff /\ FOff /\ SOff
      /\ QOff /\ POff /\ TOff /\ VOff /\ DOff /\ MOff /\ XOff

SpecCLog == InitCLog /\ [][KNext]_vars

InitEntry ==
    EInit /\ AOff /\ ROff /\ BOff /\ LOff /\ COff /\ KOff /\ FOff /\ SOff
      /\ QOff /\ POff /\ TOff /\ VOff /\ DOff /\ MOff /\ XOff

SpecEntry == InitEntry /\ [][ENext]_vars

InitFiles ==
    FInit /\ AOff /\ ROff /\ BOff /\ LOff /\ COff /\ KOff /\ EOff /\ SOff
      /\ QOff /\ POff /\ TOff /\ VOff /\ DOff /\ MOff /\ XOff

SpecFiles == InitFiles /\ [][FNext]_vars

\* Compress set and MaxBackups = 0: rotate starts no cleanup.
InitCompress ==
    InitFiles /\ fcompress /\ fmaxBackups = 0

CompressNext ==
    \/ FRotate
    \/ \E j \in fjobs : FCompressOpen(j)
    \/ \E j \in fjobs : FCompressCopy(j)

SpecCompress == InitCompress /\ [][CompressNext]_vars

InitSample ==
    SInit /\ AOff /\ ROff /\ BOff /\ LOff /\ COff /\ KOff /\ EOff /\ FOff
      /\ QOff /\ POff /\ TOff /\ VOff /\ DOff /\ MOff /\ XOff

SpecSample == InitSample /\ [][SNext]_vars

InitGate ==
    QInit /\ AOff /\ ROff /\ BOff /\ LOff /\ COff /\ KOff /\ EOff /\ FOff
      /\ SOff /\ POff /\ TOff /\ VOff /\ DOff /\ MOff /\ XOff

SpecGate == InitGate /\ [][QNext]_vars

InitPool ==
    PInit /\ AOff /\ ROff /\ BOff /\ LOff /\ COff /\ KOff /\ EOff /\ FOff
      /\ SOff /\ QOff /\ TOff /\ VOff /\ DOff /\ MOff /\ XOff

SpecPool == InitPool /\ [][PNext]_vars

InitFields ==
    PInitFields /\ AOff /\ ROff /\ BOff /\ LOff /\ COff /\ KOff /\ EOff
      /\ FOff /\ SOff /\ QOff /\ TOff /\ VOff /\ DOff /\ MOff /\ XOff

SpecFields == InitFields /\ [][FieldsNext]_vars

InitFormat ==
    TInit /\ AOff /\ ROff /\ BOff /\ LOff /\ COff /\ KOff /\ EOff /\ FOff
      /\ SOff /\ QOff /\ POff /\ VOff /\ DOff /\ MOff /\ XOff

SpecFormat == InitFormat /\ [][TNext]_vars

\* The TextFormatter given an entry with a message only.
InitMessage == InitFormat /\ tkind = "text"

MessageNext ==
    \/ TFormat

SpecMessage == InitMessage /\ [][MessageNext]_vars

InitParse ==
    VInit /\ AOff /\ ROff /\ BOff /\ LOff /\ COff /\ KOff /\ EOff /\ FOff
      /\ SOff /\ QOff /\ POff /\ TOff /\ DOff /\ MOff /\ XOff

SpecParse == InitParse /\ [][VNext]_vars

InitClose ==
    DInit /\ AOff /\ ROff /\ BOff /\ LOff /\ COff /\ KOff /\ EOff /\ FOff
      /\ SOff /\ QOff /\ POff /\ TOff /\ VOff /\ MOff /\ XOff

\* Every goroutine that can take a step eventually takes one.
SpecClose == InitClose /\ [][DNext]_vars /\ WF_vars(DInner)

InitMask ==
    MInit /\ AOff /\ ROff /\ BOff /\ LOff /\ COff /\ KOff /\ EOff /\ FOff
      /\ SOff /\ QOff /\ POff /\ TOff /\ VOff /\ DOff /\ XOff

SpecMask == InitMask /\ [][MNext]_vars

InitNames ==
    XInit /\ AOff /\ ROff /\ BOff /\ LOff /\ COff /\ KOff /\ EOff /\ FOff
      /\ SOff /\ QOff /\ POff /\ TOff /\ VOff /\ DOff /\ MOff

SpecNames == InitNames /\ [][XNext]_vars

-----------------------------------------------------------------------------
(***************************************************************************)
(* The claims.                                                             *)
(***************************************************************************)

\* C1 (SpecAsync): when Close() is called while accepted jobs are still
\* unprocessed, the shutdown is not cut short by the process dying in a
\* worker, and once Close() has returned every job that had been accepted
\* before the call has been processed.
C1_CloseDrainsQueue ==
    apending # {} =>
        /\ acrashed # "nil pointer dereference"
        /\ (acl = "returned" => abefore \subseteq awritten)

\* C2 (SpecRot, internal/rotation): every Write call returns.  The only wait
\* of Write is for r.mu, and the goroutine that holds r.mu is never the one
\* made to wait: it can always take its next step.
C2_WriteReturns ==
    rvariant = "internal" =>
        \A p \in RProcs : (rmu = p /\ rpc[p] # "idle") => ENABLED RStep(p)

\* C8 (SpecRot, both sources): with maxSize = 100 and no time trigger, from
\* an empty file, once two Write calls have returned having written 101
\* bytes together, exactly one rotation has happened, and it left the size
\* counter at 0.
C8_OneRotationAt101 ==
    (rmaxSize = 100 /\ ~rtimed /\ rfaults = 0
       /\ rcalls = 2 /\ rdone = 2 /\ rsum = 101)
    => (rrot = 1 /\ rsizeAfterRot = 0)

\* C9 (SpecRot, internal/rotation): the rotation check, the rotation and the
\* file write of one Write call are one critical section: a call that found
\* a rotation due runs it under the lock it already holds, so it is never
\* at an acquisition of r.mu while it is the one that locked r.mu.
C9_OneCriticalSection ==
    rvariant = "internal" =>
        \A p \in RProcs : rpc[p] \in {"lock", "rotate_lock"} => rmu # p

\* C3 (SpecBW): no slice is lost.  Once Close() has returned and no call is
\* in progress, every slice whose Write call was made before Close()
\* returned and returned without error has been accepted by the sink (no
\* sink fault being injected).
C3_NoSliceLost ==
    (bcl = "returned" /\ bfaults = 0 /\ \A g \in BCallers : bpc[g] = "idle")
    => \A id \in bok : id <= bmark => id \in BSinkSlices

\* C4 (SpecLog): program order within one goroutine.  When call B's bytes
\* are at the underlying sink, the bytes of every earlier call A of the same
\* goroutine that passed the level filter and goes to the same sink are
\* there before them (no format or write fault being injected).
C4_ProgramOrder ==
    bfaults = 0 =>
        \A j \in 1..Len(Flatten(bsink)) : \A a \in 1..Len(lcalls) :
            ( /\ a < Flatten(bsink)[j]
              /\ LOwner(a) = LOwner(Flatten(bsink)[j])
              /\ shouldLog(lcalls[a][2])
              /\ LToOutput(a) )
            => \E i \in 1..(j - 1) : Flatten(bsink)[i] = a

\* C5 (SpecLog): the writes are serialized: at no time are two goroutines
\* inside the Write of the logger's output.
C5_WritesSerialized == Cardinality(LInOutputWrite) <= 1

\* C10 (SpecLog): when the exit function is called for a FATAL entry, the
\* OnFatal callback has been called with it and its bytes are at the
\* underlying sink (no format or write fault being injected).
C10_FatalFlushedBeforeExit ==
    (lexit = "exit" /\ bfaults = 0) =>
        /\ lexitId \in lonFatal
        /\ \/ lexitId \in BSinkSlices
           \/ \E i \in 1..Len(lerrSink) : lerrSink[i] = <<lexitId>>

\* C6 (SpecCBW): once Close() has returned, every slice that had been
\* accepted into the queue before Close() was called has been written to
\* the sink (no sink fault being injected).
C6_CloseFlushesQueue ==
    (ccl = "returned" /\ cfaults = 0) => cbefore \subseteq CSinkSlices

\* C7 (SpecCLog): with DisableLocking = false every call of l.log returns:
\* no call waits for a lock that can never be released, that is, no call is
\* at l.mu.Lock() while l.mu is held by a call of the same goroutine that
\* is waiting for it to return.
C7_LogReturns ==
    ~kdisableLocking =>
        \A g \in BCallers : KAt(g, "lock") => kmu # g

\* C11 (SpecEntry): the used-length counter of a fixed buffer of the entry
\* never exceeds the capacity of the buffer (MessageLen <= 1024,
\* HostnameLen <= 256), and no call ends in an out-of-range fault.
C11_LengthsWithinCapacity ==
    /\ eMessageLen <= MessageCap
    /\ eHostnameLen <= HostnameCap
    /\ efault = "none"

\* C12 (SpecEntry): a call whose level is below the configured minimum has
\* acquired no entry from the pool and copied no message when it returns.
C12_LevelCheckFirst ==
    (epc = "returned" /\ elevel \notin LevelMask(emin))
    => (~eacquired /\ ~ecopied)

\* C13 (SpecEntry): with AsyncLogging the output has what the synchronous
\* call writes: the output of an XxxContext call whose context carries
\* values has the context-derived fields.
C13_AsyncKeepsContext ==
    (eout # << >> /\ ectx) => eout[1].ctx

\* C14 (SpecLog): every failure of the sink is reported to the error
\* handler: once the log calls have returned, the error handler has been
\* called once for every fault injected (format faults, which logEntry
\* reports too, and rejected writes: direct, overflow fallback or flush).
C14_SinkFailureReported ==
    (\A g \in BCallers : lpc[g] = "idle") => lerrs = bfaults

\* C15 (SpecAsync): a submission never blocks, and a job submitted while
\* the queue (still open) is full is dropped: the queue is unchanged, the
\* error handler is called once for it, and the job is never accepted nor
\* written.
C15_FullQueueDrops ==
    /\ []((acrashed = "none" /\ anext < MaxJobs) => ENABLED ALogEntry)
    /\ [](adropped \cap (aaccepted \cup awritten) = {})
    /\ [][(anext' # anext /\ ~ajobsClosed /\ Len(ajobs) >= AQueueCap)
            => /\ ajobs' = ajobs
               /\ aerrs' = aerrs + 1
               /\ adropped' = adropped \cup {anext'}
               /\ aaccepted' = aaccepted]_vars

\* C15 witness: a job has been dropped on a full, open queue and the error
\* handler called, while the accepted jobs fill the queue.
C15_Witness ==
    /\ adropped # {}
    /\ aerrs = Cardinality(adropped)
    /\ ~ajobsClosed
    /\ Len(ajobs) = AQueueCap

\* C16 (SpecBW): the flush worker wakes on the batch timeout as well as on
\* the tick: while it waits in its select with a slice in the queue, the
\* batch timer is running, so that the slice is flushed within one batch
\* timeout whatever the flush interval.
C16_BatchTimeoutBoundsLatency ==
    (bpc[0] = "select" /\ bbuf # << >> /\ ~bdone) => btimerArmed

C19_OriginalKept ==
    ~flost

\* C19 witness: a compression has failed in io.CopyBuffer, after the source
\* was opened and the destination created, and the original is not lost.
C19_Witness ==
    /\ fcompress
    /\ ffailed
    /\ fcrashed
    /\ ~flost
    /\ \E n \in DOMAIN fdir : n.gz /\ fdir[n].data = 0

\* C20 (SpecFiles): a cleanupBackups run, of internal/rotation and of
\* crystal.go, calls Remove for every file that is due for deletion, also
\* after a Remove has failed.
C20_CleanupGoesOn ==
    fcleaned => fdue \subseteq fattempted

\* C21 (SpecEntry): with MaxMessageSize = M > 0, a message longer than M is
\* written with length M + len("... [truncated]") and ends with the whole
\* marker.
C21_TruncatedLength ==
    (eout # << >> /\ emax > 0 /\ emsg > emax)
      => /\ eout[1].len = emax + TruncationMarkerLen
         /\ eout[1].marker = TruncationMarkerLen

\* C22 (SpecSample): with rate N > 1 and one caller, the calls of the
\* sampling gate that pass are exactly those numbered N, 2N, 3N, ...; with
\* rate 3, of 7 calls exactly 2 pass.
C22_EveryNthPasses ==
    srate > 1
      => /\ spass = {k \in 1..sgate : k % srate = 0}
         /\ ssampleCount = Cardinality(spass)
         /\ (srate = 3 /\ sgate = 7) => Cardinality(spass) = 2

\* C22 witness: rate 3, 7 calls of the gate, the 3rd and the 6th passed.
C22_Witness ==
    srate = 3 /\ sgate = 7 /\ spass = {3, 6}

\* C24 (SpecSample): with rate N > 1 the sampling counter advances only for
\* the calls that pass the level filter: of these, exactly those numbered
\* N, 2N, ... are written, whatever number of filtered-out calls come
\* between them.
C24_SamplingAfterLevelFilter ==
    srate > 1
      => /\ scount = slevelok
         /\ semit = {k \in 1..slevelok : k % srate = 0}

\* C24 witness: rate 2, four calls passed the level filter with three
\* filtered-out calls among them, and the 2nd and 4th were written.
C24_Witness ==
    srate = 2 /\ slevelok = 4 /\ scalls = 7 /\ semit = {2, 4}

\* C25 (SpecSample): after NewLogger and any SetLevel calls, the last of
\* which (or NewLogger) set M, shouldLog(L) is true iff L >= M for each of
\* the 8 levels; without sampling a log call at L is written iff L >= M.
C25_LevelFilter ==
    /\ \A L \in Levels : (L \in smask) <=> (L >= smin)
    /\ (scalls > 0 /\ srate = 0)
         => (slast.written <=> slast.level >= slast.min)

\* C25 witness: after two SetLevel calls, the last to WARN, a call at WARN
\* was written, and before it one at INFO was not.
C25_Witness ==
    /\ srate = 0
    /\ slast = [level |-> WARN, min |-> WARN, written |-> TRUE, sets |-> 2]
    /\ smin = WARN
    /\ scalls > slevelok

\* C23 (SpecGate): ShouldLog of package sampling returns true on every call
\* when the rate is <= 1, also for 0 and for negative rates.
C23_RateAtMostOnePasses ==
    (qvariant = "sampling" /\ qrate <= 1 /\ qcalls > 0) => qresult

\* C26 as stated (SpecBW): every Write that finds the queue full increments
\* droppedLogs by exactly one.
C26_FullQueueCounted ==
    [][(btotal' = btotal + 1 /\ Len(bbuf) >= bcap)
         => bdropped' = bdropped + 1]_vars

\* C26 as amended (SpecBW): every Write that finds the queue full while done
\* is not closed increments droppedLogs by exactly one and goes on to call
\* the sink's Write with its bytes before it returns; no other step changes
\* droppedLogs (not a Write that was enqueued, nor one that falls back
\* because done is closed); droppedLogs <= totalLogs and neither counter
\* ever decreases.
C26_OverflowCounted ==
    /\ [](bdropped <= btotal)
    /\ [][/\ btotal' >= btotal
          /\ bdropped' >= bdropped
          /\ (btotal' = btotal + 1 /\ Len(bbuf) >= bcap /\ ~bdone)
               => /\ bdropped' = bdropped + 1
                  /\ bbuf' = bbuf
                  /\ \E g \in BCallers :
                       bpc[g] = "idle" /\ bpc'[g] = "direct"
          /\ ~(btotal' = btotal + 1 /\ Len(bbuf) >= bcap /\ ~bdone)
               => bdropped' = bdropped
          /\ \A g \in BCallers :
               (bpc[g] = "direct" /\ bpc'[g] # "direct")
                 => /\ bpc'[g] = "direct_in"
                    /\ \/ bsink' = Append(bsink, <<bslice[g]>>)
                       \/ bsinkClosed
                       \/ bfaults' = bfaults + 1]_vars

\* C26 witness: with done open, a Write found the queue full, was counted,
\* and is inside the direct write with its bytes at the sink.
C26_Witness ==
    /\ ~bdone
    /\ bdropped = 1
    /\ Len(bbuf) = bcap
    /\ \E g \in BCallers : bpc[g] = "direct_in" /\ bslice[g] \in BSinkSlices

\* C27 (SpecLog): when control leaves a log call through the exit function
\* (FATAL) or through panic (PANIC), the entry of the call has been given
\* back to the pool, as it has on every return.
C27_EntryReturnedOnExit ==
    /\ \A g \in BCallers : lpc[g] = "idle" => ~LEntryOut(g)
    /\ lexit # "none" => ~LEntryOut(LOwner(lexitId))


\* C28: an entry getEntryFromPool has just returned, whoever used and
\* released it before, has every used-length counter at 0 and no field data
\* in any slot of Fields.
C28_AcquiredEntryIsZero ==
    \A g \in PGoroutines :
        ppc[g] = "fresh" =>
            /\ PCountersZero(pents[phold[g]])
            /\ PNoFieldData(pents[phold[g]])

\* C28: a goroutine has just acquired an entry that another goroutine
\* released with data in it.
C28_Witness ==
    \E g \in PGoroutines :
        /\ ppc[g] = "fresh"
        /\ plast[phold[g]] \notin {0, g}

\* C29: FieldsCount never exceeds 16 and no Set...Field call faults; a call
\* made when 16 fields are stored leaves every entry as it was.
C29_FieldsBounded ==
    /\ [](\A e \in PEntries : pents[e].FieldsCount <= FieldsCap)
    /\ [](~pfault)
    /\ [][pents[phold[1]].FieldsCount >= FieldsCap => pents' = pents]_vars

\* C29: Set...Field calls were made on an entry that already held 16 fields.
C29_Witness ==
    /\ pents[1].FieldsCount = FieldsCap
    /\ pcalls > FieldsCap
    /\ pswitches > 0


\* C30: a flush that has finished collecting has taken every slice that was
\* queued when it began, in queue order, as the first slices of its batch;
\* it then issues one write of exactly that batch to the sink, and no write
\* when the batch is empty.
C30_FlushDrainsQueue ==
    /\ [](\A p \in BProcs :
            bpc[p] \in {"flush", "flush_in"} =>
                /\ Len(bsnap[p]) <= Len(bbatch[p])
                /\ SubSeq(bbatch[p], 1, Len(bsnap[p])) = bsnap[p])
    /\ [][\A p \in BProcs :
            (bpc[p] = "flush" /\ bpc'[p] # "flush") =>
                IF bbatch[p] = << >>
                THEN bsink' = bsink /\ bpc'[p] # "flush_in"
                ELSE /\ bpc'[p] = "flush_in"
                     /\ \/ bsink' = Append(bsink, bbatch[p])
                        \/ bsink' = bsink /\ (bsinkClosed \/ bfaults' > bfaults)]_vars


\* C31: with MaskSensitiveData set, for every field with a sensitive key
\* the formatted output holds no byte of the field's real value, and holds
\* the mask token in its place unless the output was cut before it.
C31_SensitiveValuesMasked ==
    (tdone /\ tmask) =>
        \A i \in 1..Len(tfields) :
            IsSensitiveKey(tfields[i].key) =>
                /\ \A j \in 1..Len(tout) :
                       ~(tout[j].part = "value" /\ tout[j].i = i)
                /\ \/ \E j \in 1..Len(tout) :
                          tout[j].part = "mask" /\ tout[j].i = i
                   \/ RunsBytes(tout) = BufferCap

\* C32: the message part of the TextFormatter's output is the message with
\* every line feed and carriage return replaced by its two-byte escape:
\* no raw line feed or carriage return, and nothing else changed or missing.
C32_MessageEscapedWhole ==
    (tdone /\ tkind = "text") =>
        /\ \A j \in 1..Len(tout) :
               tout[j].part = "msg" => tout[j].c \notin {"LF", "CR"}
        /\ TPart(tout, "msg") = EscapeMessage(tmsg)

\* C33: the TextFormatter's output for any entry has exactly one line feed,
\* and it is the last byte.
C33_ExactlyOneLine ==
    (tdone /\ tkind = "text") =>
        /\ TCount(tout, "LF") = 1
        /\ tout # << >>
        /\ tout[Len(tout)].c = "LF"


\* C34: ParseLevel returns L without an error for the String() of each of
\* the eight levels L, WARN for "WARNING", and an error for any other
\* string.
C34_ParseLevelRoundTrip ==
    vcalls > 0 =>
        /\ \A l \in Levels :
               vstr = LevelString(l) => (~verr /\ vlevel = l)
        /\ vstr = WarningString => (~verr /\ vlevel = WARN)
        /\ (vstr # WarningString /\ \A l \in Levels : vstr # LevelString(l))
               => verr


\* C35: a call of Logger.Close that has begun returns, whatever jobs are
\* queued or in the hands of the workers.
C35_CloseReturns == (dcl # "idle") ~> (dcl = "returned")

\* C36 (SpecAsync): no submission faults, whether it runs before, during
\* or after Close: no send on the closed queue, no fault in a worker.  A
\* job is then queued or dropped, as ALogEntry says.
C36_SubmissionNeverFaults == acrashed = "none"

\* C37 (SpecMask): the mask a shouldLog reads is the whole mask of the
\* level set before or of the level being set, and a level at or above
\* both minimums passes the filter.
C37_MaskOldOrNew ==
    mcalls > 0 =>
        /\ mlast.mask \in {LevelMask(mlast.old), LevelMask(mlast.new)}
        /\ (mlast.level >= mlast.old /\ mlast.level >= mlast.new) => mlast.ok


\* C38 (SpecBW): at most one goroutine is inside a Write call of the sink:
\* the batch writes of the worker, those of a caller's Flush and the direct
\* writes of Write do not overlap.
C38_OneSinkWrite == Cardinality(BInSink) <= 1


\* C39 (SpecRot): a failed rotation leaves the writer usable.  Once the
\* fault is over, that is in every step of a Write call in which the file
\* system fails nothing, the rotation goes through and the bytes are
\* written to an open file: the writer is not left with a closed handle.
C39_UsableAfterFailure ==
    [][\A p \in RProcs :
         /\ (rpc[p] = "rotate" /\ rpc'[p] # "rotate" /\ rfaults' = rfaults)
               => (rpc'[p] = "file_write" /\ rfileOpen')
         /\ (rpc[p] = "file_write" /\ rpc'[p] = "unlock" /\ rfaults' = rfaults)
               => rsum' = rsum + rarg[p]]_vars


\* C40 (SpecNames): cleanupBackups never removes the active log file,
\* whatever its name and directory: every file it removes is a backup that
\* an earlier rotation produced.
C40_ActiveNeverDeleted ==
    /\ xactive \notin xremoved
    /\ xremoved \subseteq xbackups

====
